---------------------------- MODULE Spec2Model ----------------------------
(***************************************************************************)
(* Key selection (crates/jose/src/constraints.rs) and key loading and      *)
(* algorithm binding (crates/keystore/src/lib.rs) of the authentication    *)
(* service, as state machines over bounded inputs.                         *)
(*                                                                         *)
(* The components share the variables below; each has its own initial    *)
(* predicate, next-state relation and specification, and leaves the        *)
(* variables of the other components at their idle values:                 *)
(*   SpecFilter  ConstraintSet builders and ConstraintSet::filter          *)
(*   SpecBind    PrivateKey::signing_key_for_alg / verifying_key_for_alg   *)
(*   SpecLoad    PrivateKey::load, load_encrypted and their PEM/DER parts  *)
(*   SpecDecide  Constraint::decide on one constraint and one candidate    *)
(*   SpecBuild   ConstraintSet::new and the builders, with the sequence of *)
(*               constraints they were given, and ConstraintSet::filter    *)
(*   SpecRoundTrip  PrivateKey::to_der, to_pkcs8_der, to_pem, then loaders *)
(*   SpecKeystore   Keystore::new, clone, deref and public_jwks             *)
(*   SpecUpstream   the upstream OAuth session steps of test_repository     *)
(*   SpecActivity   record_batch_activity, one connection, call after call  *)
(*   SpecBatchLocks record_batch_activity on two connections at once        *)
(*   SpecCounter    the template Counter called from several threads        *)
(***************************************************************************)
EXTENDS Integers, Sequences, FiniteSets, TLC

VARIABLES
    constraints,     \* ConstraintSet.constraints: HashSet<Constraint>
    constrainables,  \* the collection handed to ConstraintSet::filter
    selected,        \* filter's return value, as positions in constrainables
    fop,             \* last ConstraintSet operation
    key,             \* the PrivateKey algorithm binding is asked of
    alg,             \* the JsonWebSignatureAlg asked for
    bound,           \* result of signing_key_for_alg / verifying_key_for_alg
    bop,             \* last binding operation
    bytes,           \* the input handed to a loader
    password,        \* the password handed to an encrypted loader
    loaded,          \* the loader's Result<PrivateKey, LoadError>
    lop,             \* last loader called
    dconstraint,     \* the Constraint decide is called on
    dconstrainable,  \* the candidate handed to Constraint::decide
    decision,        \* the ConstraintDecision returned, None before the call
    calls,           \* the constraints given to new and the builders, in order
    arcs,            \* the heap: the allocations made by Arc::new, each a count and a key set
    handles,         \* per caller, the allocation its Keystore points to (0: no Keystore)
    callers,         \* per caller, its reads through deref and its last public_jwks
    given,           \* the key set given to Keystore::new
    sessions,        \* the table of upstream OAuth authorization sessions
    session,         \* per session, the value the test holds (`session`)
    tpc,             \* per session, the step of the test reached
    link,            \* per session, the link it was completed with
    user_sessions,   \* the committed rows of the table user_sessions
    rowlocks,        \* per row, the connection holding its row lock (None: free)
    txn,             \* per connection, the call it is in: batch, place, uncommitted writes
    callable,        \* the connections that make calls and the activities they may supply
    count,           \* Counter.count
    inflight,        \* per thread, the call_method call it has entered (NoCall: none)
    history          \* the calls that have run, in the order of their atomic operations

filterVars == <<constraints, constrainables, selected, fop>>
bindVars == <<key, alg, bound, bop>>
loadVars == <<bytes, password, loaded, lop>>
decideVars == <<dconstraint, dconstrainable, decision>>
keystoreVars == <<arcs, handles, callers, given>>
upstreamVars == <<sessions, session, tpc, link>>
activityVars == <<user_sessions, rowlocks, txn, callable>>
counterVars == <<count, inflight, history>>
vars == <<constraints, constrainables, selected, fop, key, alg, bound, bop,
          bytes, password, loaded, lop, dconstraint, dconstrainable, decision,
          calls,
          arcs, handles, callers, given,
          sessions, session, tpc, link,
          user_sessions, rowlocks, txn, callable,
          count, inflight, history>>

\* The variables of all components but one.
exceptFilter == <<bindVars, loadVars, decideVars, calls, keystoreVars, upstreamVars, activityVars, counterVars>>
exceptBind == <<filterVars, loadVars, decideVars, calls, keystoreVars, upstreamVars, activityVars, counterVars>>
exceptLoad == <<filterVars, bindVars, decideVars, calls, keystoreVars, upstreamVars, activityVars, counterVars>>
exceptDecide == <<filterVars, bindVars, loadVars, calls, keystoreVars, upstreamVars, activityVars, counterVars>>
exceptBuild == <<bindVars, loadVars, decideVars, keystoreVars, upstreamVars, activityVars, counterVars>>
exceptKeystore == <<filterVars, bindVars, loadVars, decideVars, calls, upstreamVars, activityVars, counterVars>>
exceptBindLoad == <<filterVars, decideVars, calls, keystoreVars, upstreamVars, activityVars, counterVars>>
exceptUpstream == <<filterVars, bindVars, loadVars, decideVars, calls, keystoreVars, activityVars, counterVars>>
exceptActivity == <<filterVars, bindVars, loadVars, decideVars, calls, keystoreVars, upstreamVars, counterVars>>
exceptCounter == <<filterVars, bindVars, loadVars, decideVars, calls, activityVars, keystoreVars, upstreamVars>>

\* Option::None of an optional string-valued attribute.
None == "None"

-----------------------------------------------------------------------------
(***************************************************************************)
(* Bounds.                                                                 *)
(***************************************************************************)
\* Longest collection of constrainables handed to filter.
MaxCands == 3
\* Most constraints held by a ConstraintSet.
MaxConstraints == 2
\* Most constraints given to one ConstraintSet through new and the builders.
MaxCalls == 3
\* Most keys of the key set a Keystore is made of.
MaxKeys == 2
\* Most activities in one batch handed to record_batch_activity.
MaxBatch == 2
\* Most method calls made on one Counter.
MaxOps == 4

-----------------------------------------------------------------------------
(***************************************************************************)
(* Constraint engine: crates/jose/src/constraints.rs                       *)
(***************************************************************************)

\* enum Constraint: one record shape per variant, compared by value.
AlgConstraint(a) == [type |-> "Alg", constraint_alg |-> a]
AlgsConstraint(l) == [type |-> "Algs", constraint_algs |-> l]
KidConstraint(k) == [type |-> "Kid", constraint_kid |-> k]
UseConstraint(u) == [type |-> "Use", constraint_use |-> u]
KtyConstraint(t) == [type |-> "Kty", constraint_kty |-> t]

\* trait Constrainable: what a candidate exposes (alg, algs, kid, use_, kty).
Constrainable(a, l, k, u, t) ==
    [alg |-> a, algs |-> l, kid |-> k, use_ |-> u, kty |-> t]

\* slice::contains
Contains(l, x) == \E i \in DOMAIN l : l[i] = x

\* decide whose Alg arm accepts a candidate naming the algorithm among its
\* possible ones although its fixed algorithm is a different one.
DecideAlgListFirst(constraint, c) ==
    CASE constraint.type = "Alg" ->
           IF c.alg # None
           THEN IF c.alg = constraint.constraint_alg THEN "Positive"
                ELSE IF Contains(c.algs, constraint.constraint_alg)
                     THEN "Neutral" ELSE "Negative"
           ELSE IF Contains(c.algs, constraint.constraint_alg)
                THEN "Neutral" ELSE "Negative"
      [] constraint.type = "Algs" ->
           IF c.alg # None
           THEN IF Contains(constraint.constraint_algs, c.alg)
                THEN "Positive" ELSE "Negative"
           ELSE IF \E i \in DOMAIN c.algs :
                      Contains(constraint.constraint_algs, c.algs[i])
                THEN "Neutral" ELSE "Negative"
      [] constraint.type = "Kid" ->
           IF c.kid # None
           THEN IF c.kid = constraint.constraint_kid THEN "Positive" ELSE "Negative"
           ELSE "Neutral"
      [] constraint.type = "Use" ->
           IF c.use_ # None
           THEN IF c.use_ = constraint.constraint_use THEN "Positive" ELSE "Negative"
           ELSE "Neutral"
      [] constraint.type = "Kty" ->
           IF constraint.constraint_kty = c.kty THEN "Positive" ELSE "Negative"

\* decide whose Algs arm asks every possible algorithm of the candidate to be
\* in the list (`all` in place of `any`).
DecideAlgsAll(constraint, c) ==
    CASE constraint.type = "Alg" ->
           IF c.alg # None
           THEN IF c.alg = constraint.constraint_alg THEN "Positive" ELSE "Negative"
           ELSE IF Contains(c.algs, constraint.constraint_alg)
                THEN "Neutral" ELSE "Negative"
      [] constraint.type = "Algs" ->
           IF c.alg # None
           THEN IF Contains(constraint.constraint_algs, c.alg)
                THEN "Positive" ELSE "Negative"
           ELSE IF \A i \in DOMAIN c.algs :
                      Contains(constraint.constraint_algs, c.algs[i])
                THEN "Neutral" ELSE "Negative"
      [] constraint.type = "Kid" ->
           IF c.kid # None
           THEN IF c.kid = constraint.constraint_kid THEN "Positive" ELSE "Negative"
           ELSE "Neutral"
      [] constraint.type = "Use" ->
           IF c.use_ # None
           THEN IF c.use_ = constraint.constraint_use THEN "Positive" ELSE "Negative"
           ELSE "Neutral"
      [] constraint.type = "Kty" ->
           IF constraint.constraint_kty = c.kty THEN "Positive" ELSE "Negative"

\* decide whose Kid arm rejects a candidate that declares no kid.
DecideKidMissingNegative(constraint, c) ==
    CASE constraint.type = "Alg" ->
           IF c.alg # None
           THEN IF c.alg = constraint.constraint_alg THEN "Positive" ELSE "Negative"
           ELSE IF Contains(c.algs, constraint.constraint_alg)
                THEN "Neutral" ELSE "Negative"
      [] constraint.type = "Algs" ->
           IF c.alg # None
           THEN IF Contains(constraint.constraint_algs, c.alg)
                THEN "Positive" ELSE "Negative"
           ELSE IF \E i \in DOMAIN c.algs :
                      Contains(constraint.constraint_algs, c.algs[i])
                THEN "Neutral" ELSE "Negative"
      [] constraint.type = "Kid" ->
           IF c.kid # None
           THEN IF c.kid = constraint.constraint_kid THEN "Positive" ELSE "Negative"
           ELSE "Negative"
      [] constraint.type = "Use" ->
           IF c.use_ # None
           THEN IF c.use_ = constraint.constraint_use THEN "Positive" ELSE "Negative"
           ELSE "Neutral"
      [] constraint.type = "Kty" ->
           IF constraint.constraint_kty = c.kty THEN "Positive" ELSE "Negative"

\* Constraint::decide
Decide(constraint, c) ==
    CASE constraint.type = "Alg" ->
           IF c.alg # None
           THEN IF c.alg = constraint.constraint_alg THEN "Positive" ELSE "Negative"
           ELSE IF Contains(c.algs, constraint.constraint_alg)
                THEN "Neutral" ELSE "Negative"
      [] constraint.type = "Algs" ->
           IF c.alg # None
           THEN IF Contains(constraint.constraint_algs, c.alg)
                THEN "Positive" ELSE "Negative"
           ELSE IF \E i \in DOMAIN c.algs :
                      Contains(constraint.constraint_algs, c.algs[i])
                THEN "Neutral" ELSE "Negative"
      [] constraint.type = "Kid" ->
           IF c.kid # None
           THEN IF c.kid = constraint.constraint_kid THEN "Positive" ELSE "Negative"
           ELSE "Neutral"
      [] constraint.type = "Use" ->
           IF c.use_ # None
           THEN IF c.use_ = constraint.constraint_use THEN "Positive" ELSE "Negative"
           ELSE "Neutral"
      [] constraint.type = "Kty" ->
           IF constraint.constraint_kty = c.kty THEN "Positive" ELSE "Negative"

\* The inner loop with `break` in place of `continue 'outer`: a Negative
\* decision leaves the loop, and the candidate is pushed all the same.
RECURSIVE ScoreFromBreak(_, _, _, _)
ScoreFromBreak(order, i, c, score) ==
    IF i > Len(order)
    THEN [keep |-> TRUE, score |-> score]
    ELSE LET d == Decide(order[i], c)
         IN  IF d = "Negative"
             THEN [keep |-> TRUE, score |-> score]
             ELSE ScoreFromBreak(order, i + 1, c,
                                 IF d = "Positive" THEN score + 1 ELSE score)

\* The inner loop in which a Negative decision skips the candidate only while
\* its score is still zero, and counts as Neutral afterwards.
RECURSIVE ScoreFromLenientAfterPositive(_, _, _, _)
ScoreFromLenientAfterPositive(order, i, c, score) ==
    IF i > Len(order)
    THEN [keep |-> TRUE, score |-> score]
    ELSE LET d == Decide(order[i], c)
         IN  IF d = "Negative" /\ score = 0
             THEN [keep |-> FALSE, score |-> score]
             ELSE ScoreFromLenientAfterPositive(order, i + 1, c,
                      IF d = "Positive" THEN score + 1 ELSE score)

\* The inner loop of filter: the constraints are visited in the HashSet's
\* iteration order `order`; Positive adds one to the score, Neutral adds
\* nothing, Negative leaves the loop and skips the candidate.
RECURSIVE ScoreFrom(_, _, _, _)
ScoreFrom(order, i, c, score) ==
    IF i > Len(order)
    THEN [keep |-> TRUE, score |-> score]
    ELSE LET d == Decide(order[i], c)
         IN  IF d = "Negative"
             THEN [keep |-> FALSE, score |-> score]
             ELSE ScoreFrom(order, i + 1, c,
                            IF d = "Positive" THEN score + 1 ELSE score)

\* The outer loop putting each kept candidate in front of the ones kept
\* after it.
RECURSIVE CollectNewestFirst(_, _, _)
CollectNewestFirst(order, cands, i) ==
    IF i > Len(cands)
    THEN <<>>
    ELSE LET r == ScoreFrom(order, 1, cands[i], 0)
         IN  IF r.keep
             THEN CollectNewestFirst(order, cands, i + 1) \o <<(<<r.score, i>>)>>
             ELSE CollectNewestFirst(order, cands, i + 1)

\* The outer loop of filter: `selected` after the candidates from position i
\* on were visited, as <<score, position>> pairs in encounter order.
RECURSIVE Collect(_, _, _)
Collect(order, cands, i) ==
    IF i > Len(cands)
    THEN <<>>
    ELSE LET r == ScoreFrom(order, 1, cands[i], 0)
         IN  IF r.keep
             THEN <<(<<r.score, i>>)>> \o Collect(order, cands, i + 1)
             ELSE Collect(order, cands, i + 1)

\* Insertion of one pair in front of the pairs of equal key: the step of a
\* sort that is not stable.
RECURSIVE InsertByKeyUnstable(_, _)
InsertByKeyUnstable(sorted, e) ==
    IF sorted = <<>>
    THEN <<e>>
    ELSE IF sorted[Len(sorted)][1] < e[1]
         THEN Append(sorted, e)
         ELSE Append(InsertByKeyUnstable(SubSeq(sorted, 1, Len(sorted) - 1), e),
                     sorted[Len(sorted)])

\* Insertion of one pair behind every pair whose key is not greater.
RECURSIVE InsertByKey(_, _)
InsertByKey(sorted, e) ==
    IF sorted = <<>>
    THEN <<e>>
    ELSE IF sorted[Len(sorted)][1] <= e[1]
         THEN Append(sorted, e)
         ELSE Append(InsertByKey(SubSeq(sorted, 1, Len(sorted) - 1), e),
                     sorted[Len(sorted)])

\* A sort that puts the greatest key first.
RECURSIVE SortByKeyDescending(_)
SortByKeyDescending(sel) ==
    IF sel = <<>>
    THEN <<>>
    ELSE LET rest == SortByKeyDescending(SubSeq(sel, 1, Len(sel) - 1))
             e == sel[Len(sel)]
             lead == SelectSeq(rest, LAMBDA x : x[1] >= e[1])
             tail == SelectSeq(rest, LAMBDA x : x[1] < e[1])
         IN  lead \o <<e>> \o tail

\* Vec::sort_by_key(|(score, _)| *score): a stable sort, ascending by key.
RECURSIVE SortByKey(_)
SortByKey(sel) ==
    IF sel = <<>>
    THEN <<>>
    ELSE InsertByKey(SortByKey(SubSeq(sel, 1, Len(sel) - 1)), sel[Len(sel)])

\* ConstraintSet::filter: the positions of the returned references.
Filter(order, cands) ==
    LET sorted == SortByKey(Collect(order, cands, 1))
    IN  [i \in 1..Len(sorted) |-> sorted[i][2]]

\* A HashSet::insert that takes two constraints of the same variant for
\* equal, whatever values they carry.
HashSetInsertByVariant(S, c) ==
    IF \E x \in S : x.type = c.type THEN S ELSE S \cup {c}

\* HashSet::insert: Constraint derives PartialEq, Eq and Hash, and its fields
\* are references, compared through their targets; an element equal by value
\* to one of the set is not added again.
HashSetInsert(S, c) == S \cup {c}

\* HashSet::from_iter: the elements of the iterator inserted one by one.
RECURSIVE HashSetFromIter(_)
HashSetFromIter(iter) ==
    IF iter = <<>>
    THEN {}
    ELSE HashSetInsert(HashSetFromIter(SubSeq(iter, 1, Len(iter) - 1)),
                       iter[Len(iter)])

\* The orders in which a HashSet may hand out its elements.
IterationOrders(S) ==
    {o \in [1..Cardinality(S) -> S] :
        \A i, j \in 1..Cardinality(S) : i # j => o[i] # o[j]}

-----------------------------------------------------------------------------
(***************************************************************************)
(* Inputs of the constraint engine.                                        *)
(***************************************************************************)
Kids == {"a", "b"}

\* Candidates: keys with kid a, b or none, with or without a fixed RS256
\* algorithm, all able to do RS256 and ES256; an EC key fixed to ES256 with a
\* declared usage; and a candidate that keeps every default of the trait.
CandidatePool ==
    {Constrainable(a, <<"RS256", "ES256">>, k, None, "RSA") :
        a \in {None, "RS256"}, k \in Kids \cup {None}}
    \cup {Constrainable("ES256", <<"ES256">>, "a", "sig", "EC"),
          Constrainable(None, <<>>, None, None, "EC")}

CandidateSeqs == UNION {[1..n -> CandidatePool] : n \in 0..MaxCands}

ConstraintAlgs == {"RS256"}
ConstraintAlgLists == {<<"ES256", "ES384">>}
ConstraintKids == {"a"}
ConstraintUses == {"sig"}
ConstraintKtys == {"RSA", "EC"}

\* Inputs of SpecBuild: every constraint the builders above can make, the
\* sequences of them handed to new, and collections of two candidates.
BuildConstraints ==
    {AlgConstraint(a) : a \in ConstraintAlgs}
        \cup {AlgsConstraint(l) : l \in ConstraintAlgLists}
        \cup {KidConstraint(k) : k \in ConstraintKids}
        \cup {UseConstraint(u) : u \in ConstraintUses}
        \cup {KtyConstraint(t) : t \in ConstraintKtys}

ConstraintSeqs == UNION {[1..n -> BuildConstraints] : n \in 0..MaxCalls}

BuildCollections == [1..2 -> CandidatePool]

-----------------------------------------------------------------------------
(***************************************************************************)
(* Key representation and algorithm binding: crates/keystore/src/lib.rs    *)
(***************************************************************************)
\* Number of distinct key values per variant.
MaxMaterial == 2

\* enum PrivateKey: the variant and the key value it owns.
PrivateKeyVariants == {"Rsa", "EcP256", "EcP384", "EcK256"}
PrivateKey(v, m) == [variant |-> v, material |-> m]
PrivateKeys == {PrivateKey(v, m) : v \in PrivateKeyVariants, m \in 1..MaxMaterial}

\* enum JsonWebSignatureAlg (mas_iana::jose): the registered signature algorithms.
JsonWebSignatureAlgs ==
    {"HS256", "HS384", "HS512", "RS256", "RS384", "RS512", "ES256", "ES384",
     "ES512", "PS256", "PS384", "PS512", "none", "EdDSA", "ES256K"}

\* struct WrongAlgorithmError
WrongAlgorithmError == [ok |-> FALSE, err |-> "WrongAlgorithmError"]

\* AsymmetricSigningKey::<ctor>(key): the handle built by the named constructor
\* from the private key.
AsymmetricSigningKey(ctor, k) ==
    [ok |-> TRUE,
     handle |-> [kind |-> "signing", ctor |-> ctor, variant |-> k.variant,
                 private |-> k.material]]

\* AsymmetricVerifyingKey::<ctor>(key.public_key()): the handle built by the
\* named constructor from the public half of the key.
AsymmetricVerifyingKey(ctor, k) ==
    [ok |-> TRUE,
     handle |-> [kind |-> "verifying", ctor |-> ctor, variant |-> k.variant,
                 public_of |-> k.material]]

\* The algorithm a handle signs or verifies with: each constructor of
\* AsymmetricSigningKey / AsymmetricVerifyingKey is named after its algorithm.
HandleAlg(handle) ==
    CASE handle.ctor = "rs256" -> "RS256"
      [] handle.ctor = "rs384" -> "RS384"
      [] handle.ctor = "rs512" -> "RS512"
      [] handle.ctor = "ps256" -> "PS256"
      [] handle.ctor = "ps384" -> "PS384"
      [] handle.ctor = "ps512" -> "PS512"
      [] handle.ctor = "es256" -> "ES256"
      [] handle.ctor = "es384" -> "ES384"
      [] handle.ctor = "es256k" -> "ES256K"

\* PrivateKey::verifying_key_for_alg
VerifyingKeyForAlg(k, a) ==
    CASE k.variant = "Rsa" ->
           (CASE a = "RS256" -> AsymmetricVerifyingKey("rs256", k)
              [] a = "RS384" -> AsymmetricVerifyingKey("rs384", k)
              [] a = "RS512" -> AsymmetricVerifyingKey("rs512", k)
              [] a = "PS256" -> AsymmetricVerifyingKey("ps256", k)
              [] a = "PS384" -> AsymmetricVerifyingKey("ps384", k)
              [] a = "PS512" -> AsymmetricVerifyingKey("ps512", k)
              [] OTHER -> WrongAlgorithmError)
      [] k.variant = "EcP256" /\ a = "ES256" -> AsymmetricVerifyingKey("es256", k)
      [] k.variant = "EcP384" /\ a = "ES384" -> AsymmetricVerifyingKey("es384", k)
      [] k.variant = "EcK256" /\ a = "ES256K" -> AsymmetricVerifyingKey("es256k", k)
      [] OTHER -> WrongAlgorithmError

\* signing_key_for_alg with a best-effort substitution: an EC key asked for the
\* algorithm of another curve answers with its own.
SigningKeyForAlgCoercing(k, a) ==
    CASE k.variant = "Rsa" ->
           (CASE a = "RS256" -> AsymmetricSigningKey("rs256", k)
              [] a = "RS384" -> AsymmetricSigningKey("rs384", k)
              [] a = "RS512" -> AsymmetricSigningKey("rs512", k)
              [] a = "PS256" -> AsymmetricSigningKey("ps256", k)
              [] a = "PS384" -> AsymmetricSigningKey("ps384", k)
              [] a = "PS512" -> AsymmetricSigningKey("ps512", k)
              [] OTHER -> WrongAlgorithmError)
      [] k.variant = "EcP256" /\ a \in {"ES256", "ES256K"} ->
           AsymmetricSigningKey("es256", k)
      [] k.variant = "EcP384" /\ a = "ES384" -> AsymmetricSigningKey("es384", k)
      [] k.variant = "EcK256" /\ a \in {"ES256", "ES256K"} ->
           AsymmetricSigningKey("es256k", k)
      [] OTHER -> WrongAlgorithmError

\* PrivateKey::signing_key_for_alg
\* <PrivateKey as ParametersInfo>::kty
ParametersInfoKty(k) == IF k.variant = "Rsa" THEN "RSA" ELSE "EC"

\* possible_algs that lists the PKCS#1 v1.5 algorithms only for RSA keys.
ParametersInfoPossibleAlgsNoPss(k) ==
    CASE k.variant = "Rsa" -> <<"RS256", "RS384", "RS512">>
      [] k.variant = "EcP256" -> <<"ES256">>
      [] k.variant = "EcP384" -> <<"ES384">>
      [] k.variant = "EcK256" -> <<"ES256K">>

\* <PrivateKey as ParametersInfo>::possible_algs
ParametersInfoPossibleAlgs(k) ==
    CASE k.variant = "Rsa" ->
           <<"RS256", "RS384", "RS512", "PS256", "PS384", "PS512">>
      [] k.variant = "EcP256" -> <<"ES256">>
      [] k.variant = "EcP384" -> <<"ES384">>
      [] k.variant = "EcK256" -> <<"ES256K">>

SigningKeyForAlg(k, a) ==
    CASE k.variant = "Rsa" ->
           (CASE a = "RS256" -> AsymmetricSigningKey("rs256", k)
              [] a = "RS384" -> AsymmetricSigningKey("rs384", k)
              [] a = "RS512" -> AsymmetricSigningKey("rs512", k)
              [] a = "PS256" -> AsymmetricSigningKey("ps256", k)
              [] a = "PS384" -> AsymmetricSigningKey("ps384", k)
              [] a = "PS512" -> AsymmetricSigningKey("ps512", k)
              [] OTHER -> WrongAlgorithmError)
      [] k.variant = "EcP256" /\ a = "ES256" -> AsymmetricSigningKey("es256", k)
      [] k.variant = "EcP384" /\ a = "ES384" -> AsymmetricSigningKey("es384", k)
      [] k.variant = "EcK256" /\ a = "ES256K" -> AsymmetricSigningKey("es256k", k)
      [] OTHER -> WrongAlgorithmError

-----------------------------------------------------------------------------
(***************************************************************************)
(* Key codec, loading: crates/keystore/src/lib.rs                          *)
(*                                                                         *)
(* The DER and PEM parsers are library code.  A byte string is described   *)
(* by what each parser makes of it: `utf8` (std::str::from_utf8), `pem`    *)
(* (pem_rfc7468::decode_vec) and `der`, one result per DER structure the   *)
(* loaders try (from_der of EncryptedPrivateKeyInfo, PrivateKeyInfo,       *)
(* sec1::EcPrivateKey and pkcs1::RsaPrivateKey).                           *)
(***************************************************************************)
\* Deepest nesting of encrypted containers in an input.
MaxNest == 2

\* A parser that rejected its input.
NoParse == [ok |-> FALSE]

\* Contents of a private-key field: a key value the key type accepts, or
\* contents its conversion (try_into, from_components) rejects.
Payloads == {[valid |-> FALSE]} \cup {[valid |-> TRUE, material |-> m] : m \in 1..MaxMaterial}

\* Object identifiers.
RsaAlgorithmOid == "rsaEncryption"
EcAlgorithmOid == "id-ecPublicKey"
AlgorithmOids == {RsaAlgorithmOid, EcAlgorithmOid, "id-Ed25519"}
P256Oid == "secp256r1"
P384Oid == "secp384r1"
K256Oid == "secp256k1"
CurveOids == {P256Oid, P384Oid, K256Oid, "secp521r1"}

\* pkcs1::RsaPrivateKey as parsed: its version and its components.
Pkcs1Keys ==
    {[ok |-> TRUE, version |-> v, components |-> c] :
        v \in {"TwoPrime", "Multi"}, c \in Payloads}

\* pkcs8::PrivateKeyInfo as parsed: the algorithm identifier (oid and, for
\* the EC algorithm, its optional parameters) and the private key.
Pkcs8Infos ==
    {[ok |-> TRUE, oid |-> o, parameters |-> None, private_key |-> c] :
        o \in AlgorithmOids, c \in Payloads}
    \cup {[ok |-> TRUE, oid |-> EcAlgorithmOid, parameters |-> q, private_key |-> c] :
        q \in CurveOids, c \in Payloads}

\* Forms of the optional public key of a sec1::EcPrivateKey: absent, or the
\* point in uncompressed or compressed form.  A point that does not belong
\* to the private key makes the conversion reject the contents (an invalid
\* payload).
PublicKeyForms == {None, "uncompressed", "compressed"}

\* sec1::EcPrivateKey as parsed: the optional parameters (absent, present
\* without a named curve, or a named curve), the private key and the
\* optional public key.
Sec1Keys ==
    {[ok |-> TRUE, parameters |-> q, private_key |-> c, public_key |-> f] :
        q \in {None, "unnamed"} \cup CurveOids, c \in Payloads,
        f \in PublicKeyForms}

\* The passwords callers supply, and the one containers are encrypted under.
Passwords == {"secret", "guess"}
Secrets == {"secret"}

\* pkcs8::EncryptedPrivateKeyInfo as parsed: decrypts under `secret` to the
\* bytes `inner`.
EncryptedInfo(secret, inner) == [ok |-> TRUE, secret |-> secret, inner |-> inner]

\* What the four DER parsers make of a byte string.
Der(e, p8, s1, p1) == [enc |-> e, pkcs8 |-> p8, sec1 |-> s1, pkcs1 |-> p1]

\* Bytes none of the four parsers accepts.
Garbage == Der(NoParse, NoParse, NoParse, NoParse)

\* Byte strings exactly one parser accepts, without encryption.
PlainDers ==
    {Der(NoParse, i, NoParse, NoParse) : i \in Pkcs8Infos}
    \cup {Der(NoParse, NoParse, k, NoParse) : k \in Sec1Keys}
    \cup {Der(NoParse, NoParse, NoParse, k) : k \in Pkcs1Keys}

\* Byte strings at most one parser accepts, with up to d encrypted containers
\* around them.
RECURSIVE Ders(_)
Ders(d) ==
    IF d = 0
    THEN PlainDers \cup {Garbage}
    ELSE Ders(d - 1)
         \cup {Der(EncryptedInfo(p, x), NoParse, NoParse, NoParse) :
                   p \in Secrets, x \in Ders(d - 1)}

\* One well-formed structure per parser (and a PKCS#8 structure of an unknown
\* algorithm), and the byte strings more than one parser would accept: they
\* make the order of the attempts observable.
ProbePkcs8 ==
    [ok |-> TRUE, oid |-> RsaAlgorithmOid, parameters |-> None,
     private_key |-> [valid |-> TRUE, material |-> 1]]
ProbePkcs8Unknown ==
    [ok |-> TRUE, oid |-> "id-Ed25519", parameters |-> None,
     private_key |-> [valid |-> TRUE, material |-> 1]]
ProbeSec1 ==
    [ok |-> TRUE, parameters |-> P256Oid,
     private_key |-> [valid |-> TRUE, material |-> 1],
     public_key |-> "uncompressed"]
ProbePkcs1 ==
    [ok |-> TRUE, version |-> "TwoPrime",
     components |-> [valid |-> TRUE, material |-> 1]]
ProbeEncrypted == EncryptedInfo("secret", Der(NoParse, NoParse, ProbeSec1, NoParse))
AmbiguousDers ==
    {x \in {Der(e, p8, s1, p1) :
                e \in {NoParse, ProbeEncrypted}, p8 \in {NoParse, ProbePkcs8, ProbePkcs8Unknown},
                s1 \in {NoParse, ProbeSec1}, p1 \in {NoParse, ProbePkcs1}} :
        Cardinality({f \in {"enc", "pkcs8", "sec1", "pkcs1"} : x[f].ok}) >= 2}

DerInputs == Ders(MaxNest) \cup AmbiguousDers

\* PEM type labels (PemLabel::PEM_LABEL of the four structures, and another).
Pkcs1Label == "RSA PRIVATE KEY"
Pkcs8Label == "PRIVATE KEY"
Sec1Label == "EC PRIVATE KEY"
EncryptedLabel == "ENCRYPTED PRIVATE KEY"
PemLabels == {Pkcs1Label, Pkcs8Label, Sec1Label, EncryptedLabel, "CERTIFICATE"}

\* pem_rfc7468::decode_vec: an error, or the label and the decoded body.
PemError == [ok |-> FALSE]
PemDocument(label, doc) == [ok |-> TRUE, label |-> label, doc |-> doc]

\* The inputs of the loaders.  A PEM text is valid UTF-8 and no DER parser
\* accepts it (it starts with the encapsulation boundary, not with a DER
\* SEQUENCE tag); bytes that are no PEM text are valid UTF-8 or not.
ByteInputs ==
    {[utf8 |-> TRUE, pem |-> PemDocument(l, x), der |-> Garbage] :
        l \in PemLabels, x \in DerInputs}
    \cup {[utf8 |-> u, pem |-> PemError, der |-> x] :
        u \in BOOLEAN, x \in DerInputs}

\* enum LoadError
LoadErr(kind) == [ok |-> FALSE, err |-> kind]
LoadErrInner(kind, inner) == [ok |-> FALSE, err |-> kind, inner |-> inner]
UnknownEllipticCurveOid(oid) == [ok |-> FALSE, err |-> "UnknownEllipticCurveOid", oid |-> oid]
UnknownAlgorithmOid(oid) == [ok |-> FALSE, err |-> "UnknownAlgorithmOid", oid |-> oid]
UnsupportedPemLabel(label) == [ok |-> FALSE, err |-> "UnsupportedPemLabel", label |-> label]
InEncrypted(inner) == [ok |-> FALSE, err |-> "InEncrypted", inner |-> inner]

\* Result::Ok of a loader.
Loaded(variant, material) == [ok |-> TRUE, key |-> PrivateKey(variant, material)]

\* from_pkcs1_private_key without the version check.
FromPkcs1PrivateKeyAnyVersion(pkcs1_key) ==
    IF ~pkcs1_key.components.valid
    THEN LoadErr("Rsa")
    ELSE Loaded("Rsa", pkcs1_key.components.material)

\* PrivateKey::from_pkcs1_private_key
FromPkcs1PrivateKey(pkcs1_key) ==
    IF pkcs1_key.version # "TwoPrime"
    THEN LoadErrInner("Pkcs1", "Version")
    ELSE IF ~pkcs1_key.components.valid
         THEN LoadErr("Rsa")
         ELSE Loaded("Rsa", pkcs1_key.components.material)

\* info.try_into()? of a PrivateKeyInfo into the key type of `variant`.
Pkcs8TryInto(variant, info) ==
    IF ~info.private_key.valid
    THEN LoadErrInner("Pkcs8", "KeyMalformed")
    ELSE Loaded(variant, info.private_key.material)

\* from_private_key_info that takes every curve it does not know for P-256.
FromPrivateKeyInfoDefaultCurve(info) ==
    CASE info.oid = RsaAlgorithmOid -> Pkcs8TryInto("Rsa", info)
      [] info.oid = EcAlgorithmOid ->
           IF info.parameters = None
           THEN LoadErr("Spki")
           ELSE CASE info.parameters = P384Oid -> Pkcs8TryInto("EcP384", info)
                  [] info.parameters = K256Oid -> Pkcs8TryInto("EcK256", info)
                  [] OTHER -> Pkcs8TryInto("EcP256", info)
      [] OTHER -> UnknownAlgorithmOid(info.oid)

\* PrivateKey::from_private_key_info
FromPrivateKeyInfo(info) ==
    CASE info.oid = RsaAlgorithmOid -> Pkcs8TryInto("Rsa", info)
      [] info.oid = EcAlgorithmOid ->
           IF info.parameters = None
           THEN LoadErr("Spki")
           ELSE CASE info.parameters = P256Oid -> Pkcs8TryInto("EcP256", info)
                  [] info.parameters = P384Oid -> Pkcs8TryInto("EcP384", info)
                  [] info.parameters = K256Oid -> Pkcs8TryInto("EcK256", info)
                  [] OTHER -> UnknownEllipticCurveOid(info.parameters)
      [] OTHER -> UnknownAlgorithmOid(info.oid)

\* key.try_into()? of a sec1::EcPrivateKey into the key type of `variant`.
Sec1TryInto(variant, k) ==
    IF ~k.private_key.valid
    THEN LoadErr("Der")
    ELSE Loaded(variant, k.private_key.material)

\* from_ec_private_key that leaves absent parameters to the conversion of
\* the key: a generic DER error in place of the two specific ones.
FromEcPrivateKeyGenericError(k) ==
    IF k.parameters = None \/ k.parameters = "unnamed"
    THEN LoadErr("Der")
    ELSE CASE k.parameters = P256Oid -> Sec1TryInto("EcP256", k)
           [] k.parameters = P384Oid -> Sec1TryInto("EcP384", k)
           [] k.parameters = K256Oid -> Sec1TryInto("EcK256", k)
           [] OTHER -> UnknownEllipticCurveOid(k.parameters)

\* PrivateKey::from_ec_private_key
FromEcPrivateKey(k) ==
    IF k.parameters = None
    THEN LoadErr("MissingSec1Parameters")
    ELSE IF k.parameters = "unnamed"
         THEN LoadErr("MissingSec1CurveName")
         ELSE CASE k.parameters = P256Oid -> Sec1TryInto("EcP256", k)
                [] k.parameters = P384Oid -> Sec1TryInto("EcP384", k)
                [] k.parameters = K256Oid -> Sec1TryInto("EcK256", k)
                [] OTHER -> UnknownEllipticCurveOid(k.parameters)

\* EncryptedPrivateKeyInfo::decrypt: the decrypted bytes, or an error.
Decrypt(info, pw) ==
    IF pw = info.secret THEN [ok |-> TRUE, doc |-> info.inner] ELSE [ok |-> FALSE]

\* load_der without its first attempt: an encrypted container is not
\* recognised.
LoadDerSkipsEncrypted(der) ==
    IF der.pkcs8.ok THEN FromPrivateKeyInfo(der.pkcs8)
    ELSE IF der.sec1.ok THEN FromEcPrivateKey(der.sec1)
    ELSE IF der.pkcs1.ok THEN FromPkcs1PrivateKey(der.pkcs1)
    ELSE LoadErr("UnsupportedFormat")

\* load_der with the SEC1 attempt made before the PKCS#8 one.
LoadDerSec1First(der) ==
    IF der.enc.ok THEN LoadErr("Encrypted")
    ELSE IF der.sec1.ok THEN FromEcPrivateKey(der.sec1)
    ELSE IF der.pkcs8.ok THEN FromPrivateKeyInfo(der.pkcs8)
    ELSE IF der.pkcs1.ok THEN FromPkcs1PrivateKey(der.pkcs1)
    ELSE LoadErr("UnsupportedFormat")

\* PrivateKey::load_der
LoadDer(der) ==
    IF der.enc.ok THEN LoadErr("Encrypted")
    ELSE IF der.pkcs8.ok THEN FromPrivateKeyInfo(der.pkcs8)
    ELSE IF der.sec1.ok THEN FromEcPrivateKey(der.sec1)
    ELSE IF der.pkcs1.ok THEN FromPkcs1PrivateKey(der.pkcs1)
    ELSE LoadErr("UnsupportedFormat")

\* load_encrypted_der without map_err: the error of the inner load_der is
\* returned as it is.
LoadEncryptedDerBare(der, pw) ==
    IF der.enc.ok
    THEN LET decrypted == Decrypt(der.enc, pw)
         IN  IF ~decrypted.ok
             THEN LoadErrInner("Pkcs8", "EncryptedPrivateKey")
             ELSE LoadDer(decrypted.doc)
    ELSE IF der.pkcs8.ok \/ der.sec1.ok \/ der.pkcs1.ok
         THEN LoadErr("Unencrypted")
         ELSE LoadErr("UnsupportedFormat")

\* load_encrypted_der that wraps the error of the decryption step as well.
LoadEncryptedDerWrapsDecrypt(der, pw) ==
    IF der.enc.ok
    THEN LET decrypted == Decrypt(der.enc, pw)
         IN  IF ~decrypted.ok
             THEN InEncrypted(LoadErrInner("Pkcs8", "EncryptedPrivateKey"))
             ELSE LET r == LoadDer(decrypted.doc)
                  IN  IF r.ok THEN r ELSE InEncrypted(r)
    ELSE IF der.pkcs8.ok \/ der.sec1.ok \/ der.pkcs1.ok
         THEN LoadErr("Unencrypted")
         ELSE LoadErr("UnsupportedFormat")

\* PrivateKey::load_encrypted_der
LoadEncryptedDer(der, pw) ==
    IF der.enc.ok
    THEN LET decrypted == Decrypt(der.enc, pw)
         IN  IF ~decrypted.ok
             THEN LoadErrInner("Pkcs8", "EncryptedPrivateKey")
             ELSE LET r == LoadDer(decrypted.doc)
                  IN  IF r.ok THEN r ELSE InEncrypted(r)
    ELSE IF der.pkcs8.ok \/ der.sec1.ok \/ der.pkcs1.ok
         THEN LoadErr("Unencrypted")
         ELSE LoadErr("UnsupportedFormat")

\* load_encrypted_pem that loads a document with an unencrypted label instead
\* of refusing it.
LoadEncryptedPemLenient(pem, pw) ==
    IF ~pem.ok
    THEN LoadErr("Pem")
    ELSE CASE pem.label = EncryptedLabel ->
                IF ~pem.doc.enc.ok
                THEN LoadErr("Der")
                ELSE LET decrypted == Decrypt(pem.doc.enc, pw)
                     IN  IF ~decrypted.ok
                         THEN LoadErrInner("Pkcs8", "EncryptedPrivateKey")
                         ELSE LET r == LoadDer(decrypted.doc)
                              IN  IF r.ok THEN r ELSE InEncrypted(r)
           [] pem.label \in {Pkcs1Label, Pkcs8Label, Sec1Label} ->
                LoadDer(pem.doc)
           [] OTHER -> UnsupportedPemLabel(pem.label)

\* PrivateKey::load_encrypted_pem
LoadEncryptedPem(pem, pw) ==
    IF ~pem.ok
    THEN LoadErr("Pem")
    ELSE CASE pem.label = EncryptedLabel ->
                IF ~pem.doc.enc.ok
                THEN LoadErr("Der")
                ELSE LET decrypted == Decrypt(pem.doc.enc, pw)
                     IN  IF ~decrypted.ok
                         THEN LoadErrInner("Pkcs8", "EncryptedPrivateKey")
                         ELSE LET r == LoadDer(decrypted.doc)
                              IN  IF r.ok THEN r ELSE InEncrypted(r)
           [] pem.label \in {Pkcs1Label, Pkcs8Label, Sec1Label} ->
                LoadErr("Unencrypted")
           [] OTHER -> UnsupportedPemLabel(pem.label)

\* load_pem that, when the body is not the labelled structure, tries the
\* other formats on it.
LoadPemTriesOtherFormats(pem) ==
    IF ~pem.ok
    THEN LoadErr("Pem")
    ELSE CASE pem.label = Pkcs1Label ->
                IF ~pem.doc.pkcs1.ok
                THEN LoadDer(pem.doc)
                ELSE FromPkcs1PrivateKey(pem.doc.pkcs1)
           [] pem.label = Pkcs8Label ->
                IF ~pem.doc.pkcs8.ok
                THEN LoadDer(pem.doc)
                ELSE FromPrivateKeyInfo(pem.doc.pkcs8)
           [] pem.label = Sec1Label ->
                IF ~pem.doc.sec1.ok
                THEN LoadDer(pem.doc)
                ELSE FromEcPrivateKey(pem.doc.sec1)
           [] pem.label = EncryptedLabel -> LoadErr("Encrypted")
           [] OTHER -> UnsupportedPemLabel(pem.label)

\* PrivateKey::load_pem
LoadPem(pem) ==
    IF ~pem.ok
    THEN LoadErr("Pem")
    ELSE CASE pem.label = Pkcs1Label ->
                IF ~pem.doc.pkcs1.ok
                THEN LoadErr("Der")
                ELSE FromPkcs1PrivateKey(pem.doc.pkcs1)
           [] pem.label = Pkcs8Label ->
                IF ~pem.doc.pkcs8.ok
                THEN LoadErr("Der")
                ELSE FromPrivateKeyInfo(pem.doc.pkcs8)
           [] pem.label = Sec1Label ->
                IF ~pem.doc.sec1.ok
                THEN LoadErr("Der")
                ELSE FromEcPrivateKey(pem.doc.sec1)
           [] pem.label = EncryptedLabel -> LoadErr("Encrypted")
           [] OTHER -> UnsupportedPemLabel(pem.label)

\* load that returns every error of the PEM path, the malformed-PEM error
\* included.
LoadNoFallThrough(b) ==
    IF b.utf8 THEN LoadPem(b.pem) ELSE LoadDer(b.der)

\* load that goes on to the DER loader after any error of the PEM path.
LoadAlwaysFallsThrough(b) ==
    IF b.utf8
    THEN LET r == LoadPem(b.pem)
         IN  IF r.ok THEN r ELSE LoadDer(b.der)
    ELSE LoadDer(b.der)

\* PrivateKey::load
Load(b) ==
    IF b.utf8
    THEN LET r == LoadPem(b.pem)
         IN  IF r.ok THEN r
             ELSE IF r.err = "Pem" THEN LoadDer(b.der)
             ELSE r
    ELSE LoadDer(b.der)

\* PrivateKey::load_encrypted
LoadEncrypted(b, pw) ==
    IF b.utf8
    THEN LET r == LoadEncryptedPem(b.pem, pw)
         IN  IF r.ok THEN r
             ELSE IF r.err = "Pem" THEN LoadEncryptedDer(b.der, pw)
             ELSE r
    ELSE LoadEncryptedDer(b.der, pw)

-----------------------------------------------------------------------------
(***************************************************************************)
(* Encoders: to_der, to_pkcs8_der, to_pem and the SEC1 helpers.  An        *)
(* encoder returns the document as the parsers will read it back.          *)
(***************************************************************************)
\* C::OID of the curve of an elliptic curve variant.
AssociatedOid(variant) ==
    CASE variant = "EcP256" -> P256Oid
      [] variant = "EcP384" -> P384Oid
      [] variant = "EcK256" -> K256Oid

\* The contents of a private-key field holding the key itself.
KeyBytes(k) == [valid |-> TRUE, material |-> k.material]

\* key.to_pkcs1_der() of an RSA key: the two-prime RSAPrivateKey structure.
ToPkcs1Der(k) ==
    Der(NoParse, NoParse, NoParse,
        [ok |-> TRUE, version |-> "TwoPrime", components |-> KeyBytes(k)])

\* key.to_pkcs1_pem(line_ending) of an RSA key.
ToPkcs1Pem(k) == PemDocument(Pkcs1Label, ToPkcs1Der(k))

\* to_sec1_der as the default implementation of SecretKey has it: without
\* the named curve.
ToSec1DerWithoutCurve(k) ==
    Der(NoParse, NoParse,
        [ok |-> TRUE,
         parameters |-> None,
         private_key |-> KeyBytes(k),
         public_key |-> "uncompressed"],
        NoParse)

\* to_sec1_der
ToSec1Der(k) ==
    Der(NoParse, NoParse,
        [ok |-> TRUE,
         parameters |-> AssociatedOid(k.variant),
         private_key |-> KeyBytes(k),
         public_key |-> "uncompressed"],
        NoParse)

\* to_sec1_pem
ToSec1Pem(k) ==
    PemDocument(Sec1Label,
        Der(NoParse, NoParse,
            [ok |-> TRUE,
             parameters |-> AssociatedOid(k.variant),
             private_key |-> KeyBytes(k),
             public_key |-> "uncompressed"],
            NoParse))

\* PrivateKey::to_der
ToDer(k) ==
    IF k.variant = "Rsa" THEN ToPkcs1Der(k) ELSE ToSec1Der(k)

\* PrivateKey::to_pkcs8_der: key.to_pkcs8_der() of the key type, a
\* PrivateKeyInfo with the algorithm identifier of the key type.
ToPkcs8Der(k) ==
    IF k.variant = "Rsa"
    THEN Der(NoParse,
             [ok |-> TRUE, oid |-> RsaAlgorithmOid, parameters |-> None,
              private_key |-> KeyBytes(k)],
             NoParse, NoParse)
    ELSE Der(NoParse,
             [ok |-> TRUE, oid |-> EcAlgorithmOid,
              parameters |-> AssociatedOid(k.variant),
              private_key |-> KeyBytes(k)],
             NoParse, NoParse)

\* to_pem that puts the PKCS#8 label on the PKCS#1 body of an RSA key.
ToPemPkcs8Label(k) ==
    IF k.variant = "Rsa"
    THEN PemDocument(Pkcs8Label, ToPkcs1Der(k))
    ELSE ToSec1Pem(k)

\* PrivateKey::to_pem
ToPem(k) ==
    IF k.variant = "Rsa" THEN ToPkcs1Pem(k) ELSE ToSec1Pem(k)

\* The bytes of a DER document: no PEM text, valid UTF-8 or not.
DerBytes(doc, u) == [utf8 |-> u, pem |-> PemError, der |-> doc]

\* The bytes of a PEM text.
PemBytes(pem) == [utf8 |-> TRUE, pem |-> pem, der |-> Garbage]

-----------------------------------------------------------------------------
(***************************************************************************)
(* Keystore: an Arc around a JsonWebKeySet<PrivateKey>.                    *)
(***************************************************************************)
\* JsonWebKey<P>: the parameters and the metadata of one entry.
JsonWebKey(parameters, k, u, a) ==
    [parameters |-> parameters, kid |-> k, use_ |-> u, alg |-> a]

\* JsonWebKeyPublicParameters of an RSA public key (modulus and exponent) and
\* of a public point on a curve.
RsaPublicParameters(m) == [kty |-> "RSA", crv |-> None, public_of |-> m]
EcPublicParameters(crv, m) == [kty |-> "EC", crv |-> crv, public_of |-> m]

\* From<&PrivateKey> for JsonWebKeyPublicParameters with the point of every
\* curve published as a P-256 point.
PublicParametersOneCurve(val) ==
    IF val.variant = "Rsa"
    THEN RsaPublicParameters(val.material)
    ELSE EcPublicParameters("P-256", val.material)

\* From<&PrivateKey> for JsonWebKeyPublicParameters
PublicParametersFrom(val) ==
    CASE val.variant = "Rsa" -> RsaPublicParameters(val.material)
      [] val.variant = "EcP256" -> EcPublicParameters("P-256", val.material)
      [] val.variant = "EcP384" -> EcPublicParameters("P-384", val.material)
      [] val.variant = "EcK256" -> EcPublicParameters("secp256k1", val.material)

\* JsonWebKey::cloned_map: the same entry with its parameters mapped.
ClonedMap(jwk, mapped) == [jwk EXCEPT !.parameters = mapped]

\* Keystore::public_jwks over the key set behind the Arc.
PublicJwks(set) ==
    [i \in DOMAIN set |-> ClonedMap(set[i], PublicParametersFrom(set[i].parameters))]

\* Arc::clone that makes a copy of the set on the heap and points to it.
ArcCloneCopies(heap, ptr) ==
    [heap |-> Append(heap, [strong |-> 1, data |-> heap[ptr].data]),
     ptr |-> Len(heap) + 1]

\* Arc::clone (derive(Clone) on Keystore): one more strong reference to the
\* allocation, and a pointer to that same allocation.
ArcClone(heap, ptr) ==
    [heap |-> [heap EXCEPT ![ptr].strong = @ + 1], ptr |-> ptr]

\* Drop of a Keystore: one strong reference less.
ArcDrop(heap, ptr) == [heap EXCEPT ![ptr].strong = @ - 1]

\* The holders of Keystore values: the one that made it, and another.
Callers == {"c1", "c2"}

\* Entries of the key sets: one key of each variant, with and without a key
\* id, declared for signing, with the algorithm declared for the EC keys.
KeystoreEntries ==
    {JsonWebKey(PrivateKey(v, 1), k, "sig",
                IF v = "EcP256" THEN "ES256" ELSE None) :
        v \in PrivateKeyVariants, k \in {"a", None}}

\* The key sets handed to Keystore::new.
KeySets == UNION {[1..n -> KeystoreEntries] : n \in 0..MaxKeys}

\* A caller that holds no Keystore and has read nothing.
NoCaller == [pos |-> 0, seen |-> <<>>, called |-> FALSE, jwks |-> <<>>]

-----------------------------------------------------------------------------
(***************************************************************************)
(* Upstream OAuth authorization sessions: the repository calls made by     *)
(* tests::test_repository (crates/storage-pg/src/upstream_oauth2/mod.rs).  *)
(* The session repository and the session type are not part of the source *)
(* at hand; they are modelled as a table of rows with the columns the      *)
(* calls write and the state that lookup derives from them.                *)
(***************************************************************************)
\* The sessions the test starts and the links it completes them with.
SessionIds == {"s1", "s2"}
LinkIds == {"l1", "l2"}

\* A session that is not in the table, and the row of a session.
NoRow == [present |-> FALSE]
SessionRow(l, completed, consumed) ==
    [present |-> TRUE, link_id |-> l, completed_at |-> completed,
     consumed_at |-> consumed]

\* The session value: its state and, when it has one, its link.
SessionState(st, l) == [ok |-> TRUE, state |-> st, link_id |-> l]
SessionError(e) == [ok |-> FALSE, err |-> e]

\* session.is_pending(), is_completed(), is_consumed(), link_id()
IsPending(v) == v.ok /\ v.state = "Pending"
IsCompleted(v) == v.ok /\ v.state = "Completed"
IsConsumed(v) == v.ok /\ v.state = "Consumed"
LinkId(v) == v.link_id

\* upstream_oauth_session().add: a new row, not completed and not consumed.
SessionAdd(table, id) ==
    [table |-> [table EXCEPT ![id] = SessionRow(None, None, None)],
     value |-> SessionState("Pending", None)]

\* complete_with_link writing the link and the completion time to every row.
SessionCompleteWithLinkAllRows(table, id, v, l) ==
    [table |-> [x \in DOMAIN table |->
                   IF table[x].present
                   THEN [table[x] EXCEPT !.link_id = l, !.completed_at = "now"]
                   ELSE table[x]],
     value |-> IF IsPending(v) THEN SessionState("Completed", l)
               ELSE SessionError("InvalidTransition")]

\* upstream_oauth_session().complete_with_link: the row of the session gets
\* the link and the completion time; the value moves from Pending to
\* Completed.
SessionCompleteWithLink(table, id, v, l) ==
    [table |-> [table EXCEPT ![id].link_id = l, ![id].completed_at = "now"],
     value |-> IF IsPending(v) THEN SessionState("Completed", l)
               ELSE SessionError("InvalidTransition")]

\* upstream_oauth_session().consume: the row gets the consumption time; the
\* value moves from Completed to Consumed.
SessionConsume(table, id, v) ==
    [table |-> [table EXCEPT ![id].consumed_at = "now"],
     value |-> IF IsCompleted(v) THEN SessionState("Consumed", v.link_id)
               ELSE SessionError("InvalidTransition")]

\* upstream_oauth_session().lookup: the state the columns of the row stand
\* for.
SessionLookup(table, id) ==
    LET row == table[id]
    IN  IF ~row.present THEN SessionError("NotFound")
        ELSE IF row.link_id = None /\ row.completed_at = None
                    /\ row.consumed_at = None
             THEN SessionState("Pending", None)
        ELSE IF row.link_id # None /\ row.completed_at # None
                    /\ row.consumed_at = None
             THEN SessionState("Completed", row.link_id)
        ELSE IF row.link_id # None /\ row.completed_at # None
                    /\ row.consumed_at # None
             THEN SessionState("Consumed", row.link_id)
        ELSE SessionError("DatabaseInconsistency")

-----------------------------------------------------------------------------
(***************************************************************************)
(* Browser sessions: PgBrowserSessionRepository::record_batch_activity     *)
(* (crates/storage-pg/src/user/session.rs).                                *)
(***************************************************************************)
\* The rows of user_sessions, by user_session_id in the order of the ids.
UserSessionIds == {1, 2, 3}

\* A last_active_at that is NULL: less than every timestamp.
NullTime == 0

\* Timestamps and addresses of activities; an activity may carry no address.
ActivityTimes == {1, 2}
IpAddrs == {"ip1", "ip2"}

\* One element of `activities`: (Ulid, DateTime<Utc>, Option<IpAddr>).
Activity(id, at, ip) == [id |-> id, at |-> at, ip |-> ip]

\* Ord of Option<IpAddr>: None before every address.
IpRank(ip) == CASE ip = None -> 0 [] ip = "ip1" -> 1 [] ip = "ip2" -> 2

\* Ord of the tuples: by id, then by timestamp, then by address.
ActivityLessEq(a, b) ==
    \/ a.id < b.id
    \/ a.id = b.id /\ a.at < b.at
    \/ a.id = b.id /\ a.at = b.at /\ IpRank(a.ip) <= IpRank(b.ip)

\* activities.sort_unstable() that leaves the batch as the caller gave it.
SortUnstableKeepsOrder(activities) == activities

\* activities.sort_unstable(): the batch in ascending order of the tuples.
RECURSIVE SortUnstable(_)
SortUnstable(activities) ==
    IF activities = <<>>
    THEN <<>>
    ELSE LET init == SortUnstable(SubSeq(activities, 1, Len(activities) - 1))
             e == activities[Len(activities)]
             lead == SelectSeq(init, LAMBDA x : ActivityLessEq(x, e))
             tail == SelectSeq(init, LAMBDA x : ~ActivityLessEq(x, e))
         IN  lead \o <<e>> \o tail

\* GREATEST that returns the supplied timestamp.
GreatestSupplied(supplied, stored) == supplied

\* GREATEST(t.last_active_at, user_sessions.last_active_at)
Greatest(supplied, stored) == IF supplied >= stored THEN supplied ELSE stored

\* COALESCE(t.last_active_ip, user_sessions.last_active_ip)
Coalesce(supplied, stored) == IF supplied # None THEN supplied ELSE stored

\* A row of user_sessions, and the new version of a row an UPDATE has
\* written and not yet committed.
UserSession(at, ip) == [last_active_at |-> at, last_active_ip |-> ip]
NoWrite == [written |-> FALSE]
Written(at, ip) == [written |-> TRUE, last_active_at |-> at, last_active_ip |-> ip]

\* DatabaseError::ensure_affected_rows(&res, ids.len())
EnsureAffectedRows(affected, expected) ==
    IF affected = expected THEN "Ok" ELSE "Err"

\* The connections that record activity.
Workers == {"w1", "w2"}

\* A connection outside a call.
NoTxn ==
    [state |-> "idle", given |-> <<>>, activities |-> <<>>, pos |-> 0,
     writes |-> [x \in UserSessionIds |-> NoWrite], result |-> None]

\* The batches of activities out of a pool.
Batches(pool) == UNION {[1..n -> pool] : n \in 0..MaxBatch}

-----------------------------------------------------------------------------
(***************************************************************************)
(* The template Counter (crates/templates/src/functions.rs): an            *)
(* AtomicUsize behind an Arc, called by name.  Every access is one atomic  *)
(* operation on the one location, so the accesses of all threads fall in   *)
(* one order.  The counts reached here stay far below the width of usize.  *)
(***************************************************************************)
\* The threads that hold the Arc<Counter>.
Threads == {"t1", "t2", "t3"}

\* Method names and argument lists a template can call the object with.
MethodNames == {"reset", "next", "peek", "count"}
ArgLists == {<<>>, <<1>>}

\* A thread that is not inside call_method.
NoCall == [name |-> None, args |-> <<>>]

\* from_args::<()>(args)
FromArgs(args) == IF args = <<>> THEN "Ok" ELSE "TooManyArguments"

\* fetch_add that returns the value after the addition.
FetchAddReturnsNew(value, n) == [returned |-> value + n, value |-> value + n]

\* AtomicUsize::fetch_add(n): adds n, returns the previous value.
FetchAdd(value, n) == [returned |-> value, value |-> value + n]

\* AtomicUsize::store(n)
AtomicStore(value, n) == [returned |-> "undefined", value |-> n]

\* AtomicUsize::load()
AtomicLoad(value) == [returned |-> value, value |-> value]

\* Counter::call_method(name, args) on the count `value`: what it returns
\* and the count it leaves.
CallMethodResult(value, name, args) ==
    IF FromArgs(args) # "Ok"
    THEN [returned |-> FromArgs(args), value |-> value]
    ELSE CASE name = "reset" -> AtomicStore(value, 0)
           [] name = "next" -> FetchAdd(value, 1)
           [] name = "peek" -> AtomicLoad(value)
           [] OTHER -> [returned |-> "InvalidOperation", value |-> value]

-----------------------------------------------------------------------------
(***************************************************************************)
(* Inputs of Constraint::decide taken alone: every combination of the      *)
(* attributes a candidate can declare, against constraints of each kind.   *)
(***************************************************************************)
DecideAlgs == {"RS256", "ES256", "PS256"}
DecideAlgLists == {<<>>, <<"RS256">>, <<"RS256", "ES256">>, <<"ES384">>}
DecideKids == {"a", "b"}
DecideUses == {"sig", "enc"}
DecideKtys == {"RSA", "EC", "OKP"}

DecideConstrainables ==
    {Constrainable(a, l, k, u, t) :
        a \in {None, "RS256", "ES256"}, l \in DecideAlgLists,
        k \in DecideKids \cup {None}, u \in DecideUses \cup {None},
        t \in {"RSA", "EC"}}

DecideConstraints ==
    {AlgConstraint(a) : a \in DecideAlgs}
        \cup {AlgsConstraint(l) : l \in DecideAlgLists}
        \cup {KidConstraint(k) : k \in DecideKids}
        \cup {UseConstraint(u) : u \in DecideUses}
        \cup {KtyConstraint(t) : t \in DecideKtys}

-----------------------------------------------------------------------------
(***************************************************************************)
(* Idle values of the components.                                          *)
(***************************************************************************)
FilterIdle ==
    /\ constraints = {}
    /\ constrainables = <<>>
    /\ selected = <<>>
    /\ fop = "idle"

BindIdle ==
    /\ key = [variant |-> "Rsa", material |-> 0]
    /\ alg = None
    /\ bound = [ok |-> FALSE]
    /\ bop = "idle"

LoadIdle ==
    /\ bytes = [utf8 |-> FALSE, pem |-> PemError, der |-> Garbage]
    /\ password = None
    /\ loaded = [ok |-> FALSE]
    /\ lop = "idle"

DecideIdle ==
    /\ dconstraint = KtyConstraint("RSA")
    /\ dconstrainable = Constrainable(None, <<>>, None, None, "RSA")
    /\ decision = None

CallsIdle == calls = <<>>

KeystoreIdle ==
    /\ arcs = <<>>
    /\ handles = [c \in Callers |-> 0]
    /\ callers = [c \in Callers |-> NoCaller]
    /\ given = <<>>

UpstreamIdle ==
    /\ sessions = [x \in SessionIds |-> NoRow]
    /\ session = [x \in SessionIds |-> SessionError("NotFound")]
    /\ tpc = [x \in SessionIds |-> "idle"]
    /\ link = [x \in SessionIds |-> None]

ActivityIdle ==
    /\ user_sessions = [x \in UserSessionIds |-> UserSession(NullTime, None)]
    /\ rowlocks = [x \in UserSessionIds |-> None]
    /\ txn = [p \in Workers |-> NoTxn]
    /\ callable = [workers |-> {}, pool |-> {}]

CounterIdle ==
    /\ count = 0
    /\ inflight = [t \in Threads |-> NoCall]
    /\ history = <<>>

-----------------------------------------------------------------------------
(***************************************************************************)
(* SpecFilter: a ConstraintSet is built by its builder methods and used to *)
(* filter a collection.                                                    *)
(***************************************************************************)
InitFilter ==
    /\ constraints = {}
    /\ constrainables \in CandidateSeqs
    /\ selected = <<>>
    /\ fop = "default"
    /\ BindIdle
    /\ LoadIdle
    /\ DecideIdle
    /\ CallsIdle
    /\ KeystoreIdle
    /\ UpstreamIdle
    /\ ActivityIdle
    /\ CounterIdle

\* HashSet::insert of one constraint.
Insert(c) ==
    /\ c \in constraints \/ Cardinality(constraints) < MaxConstraints
    /\ constraints' = constraints \cup {c}
    /\ selected' = <<>>
    /\ fop' = "insert"
    /\ UNCHANGED <<constrainables, exceptFilter>>

\* ConstraintSet::alg
WithAlg == \E a \in ConstraintAlgs : Insert(AlgConstraint(a))

\* ConstraintSet::algs
WithAlgs == \E l \in ConstraintAlgLists : Insert(AlgsConstraint(l))

\* ConstraintSet::kid
WithKid == \E k \in ConstraintKids : Insert(KidConstraint(k))

\* ConstraintSet::use_
WithUse == \E u \in ConstraintUses : Insert(UseConstraint(u))

\* ConstraintSet::kty
WithKty == \E t \in ConstraintKtys : Insert(KtyConstraint(t))

\* ConstraintSet::filter
DoFilter ==
    /\ \E order \in IterationOrders(constraints) :
           selected' = Filter(order, constrainables)
    /\ fop' = "filter"
    /\ UNCHANGED <<constraints, constrainables, exceptFilter>>

NextFilter == WithAlg \/ WithAlgs \/ WithKid \/ WithUse \/ WithKty \/ DoFilter

SpecFilter == InitFilter /\ [][NextFilter]_vars

-----------------------------------------------------------------------------
(***************************************************************************)
(* SpecBind: a key is asked for a signing or a verifying handle.           *)
(***************************************************************************)
InitBind ==
    /\ key \in PrivateKeys
    /\ alg \in JsonWebSignatureAlgs
    /\ bound = [ok |-> FALSE]
    /\ bop = "new"
    /\ FilterIdle
    /\ LoadIdle
    /\ DecideIdle
    /\ CallsIdle
    /\ KeystoreIdle
    /\ UpstreamIdle
    /\ ActivityIdle
    /\ CounterIdle

SigningKey ==
    /\ bound' = SigningKeyForAlg(key, alg)
    /\ bop' = "signing_key_for_alg"
    /\ UNCHANGED <<key, alg, exceptBind>>

VerifyingKey ==
    /\ bound' = VerifyingKeyForAlg(key, alg)
    /\ bop' = "verifying_key_for_alg"
    /\ UNCHANGED <<key, alg, exceptBind>>

NextBind == SigningKey \/ VerifyingKey

SpecBind == InitBind /\ [][NextBind]_vars

-----------------------------------------------------------------------------
(***************************************************************************)
(* SpecLoad: one input is handed to the loaders.                           *)
(***************************************************************************)
InitLoad ==
    /\ bytes \in ByteInputs
    /\ password = None
    /\ loaded = [ok |-> FALSE]
    /\ lop = "new"
    /\ FilterIdle
    /\ BindIdle
    /\ DecideIdle
    /\ CallsIdle
    /\ KeystoreIdle
    /\ UpstreamIdle
    /\ ActivityIdle
    /\ CounterIdle

\* PrivateKey::load(bytes)
CallLoad ==
    /\ loaded' = Load(bytes)
    /\ password' = None
    /\ lop' = "load"
    /\ UNCHANGED <<bytes, exceptLoad>>

\* PrivateKey::load_encrypted(bytes, password)
CallLoadEncrypted ==
    /\ \E pw \in Passwords :
           /\ loaded' = LoadEncrypted(bytes, pw)
           /\ password' = pw
    /\ lop' = "load_encrypted"
    /\ UNCHANGED <<bytes, exceptLoad>>

\* PrivateKey::load_der(bytes)
CallLoadDer ==
    /\ loaded' = LoadDer(bytes.der)
    /\ password' = None
    /\ lop' = "load_der"
    /\ UNCHANGED <<bytes, exceptLoad>>

\* PrivateKey::load_encrypted_der(bytes, password)
CallLoadEncryptedDer ==
    /\ \E pw \in Passwords :
           /\ loaded' = LoadEncryptedDer(bytes.der, pw)
           /\ password' = pw
    /\ lop' = "load_encrypted_der"
    /\ UNCHANGED <<bytes, exceptLoad>>

\* PrivateKey::load_pem(pem): the argument is a &str.
CallLoadPem ==
    /\ bytes.utf8
    /\ loaded' = LoadPem(bytes.pem)
    /\ password' = None
    /\ lop' = "load_pem"
    /\ UNCHANGED <<bytes, exceptLoad>>

\* PrivateKey::load_encrypted_pem(pem, password): the argument is a &str.
CallLoadEncryptedPem ==
    /\ bytes.utf8
    /\ \E pw \in Passwords :
           /\ loaded' = LoadEncryptedPem(bytes.pem, pw)
           /\ password' = pw
    /\ lop' = "load_encrypted_pem"
    /\ UNCHANGED <<bytes, exceptLoad>>

NextLoad ==
    \/ CallLoad
    \/ CallLoadEncrypted
    \/ CallLoadDer
    \/ CallLoadEncryptedDer
    \/ CallLoadPem
    \/ CallLoadEncryptedPem

SpecLoad == InitLoad /\ [][NextLoad]_vars

-----------------------------------------------------------------------------
(***************************************************************************)
(* SpecDecide: one constraint decides on one candidate.                    *)
(***************************************************************************)
InitDecide ==
    /\ dconstraint \in DecideConstraints
    /\ dconstrainable \in DecideConstrainables
    /\ decision = None
    /\ FilterIdle
    /\ BindIdle
    /\ LoadIdle
    /\ CallsIdle
    /\ KeystoreIdle
    /\ UpstreamIdle
    /\ ActivityIdle
    /\ CounterIdle

\* constraint.decide(constrainable)
DoDecide ==
    /\ decision' = Decide(dconstraint, dconstrainable)
    /\ UNCHANGED <<dconstraint, dconstrainable, exceptDecide>>

NextDecide == DoDecide

SpecDecide == InitDecide /\ [][NextDecide]_vars

-----------------------------------------------------------------------------
(***************************************************************************)
(* SpecBuild: a ConstraintSet is made by new or by default, extended by    *)
(* the builders and used to filter; `calls` keeps every constraint it was  *)
(* given, repeated ones included.                                          *)
(***************************************************************************)
InitBuild ==
    /\ constraints = {}
    /\ constrainables \in BuildCollections
    /\ selected = <<>>
    /\ fop = "default"
    /\ calls = <<>>
    /\ BindIdle
    /\ LoadIdle
    /\ DecideIdle
    /\ KeystoreIdle
    /\ UpstreamIdle
    /\ ActivityIdle
    /\ CounterIdle

\* ConstraintSet::new(constraints), and from_iter
BuildNew ==
    /\ fop = "default"
    /\ \E iter \in ConstraintSeqs :
           /\ constraints' = HashSetFromIter(iter)
           /\ calls' = iter
    /\ selected' = <<>>
    /\ fop' = "new"
    /\ UNCHANGED <<constrainables, exceptBuild>>

\* self.constraints.insert(c) of a builder method
BuildInsert(c) ==
    /\ Len(calls) < MaxCalls
    /\ constraints' = HashSetInsert(constraints, c)
    /\ calls' = Append(calls, c)
    /\ selected' = <<>>
    /\ fop' = "insert"
    /\ UNCHANGED <<constrainables, exceptBuild>>

\* ConstraintSet::alg
BuildAlg == \E a \in ConstraintAlgs : BuildInsert(AlgConstraint(a))

\* ConstraintSet::algs
BuildAlgs == \E l \in ConstraintAlgLists : BuildInsert(AlgsConstraint(l))

\* ConstraintSet::kid
BuildKid == \E k \in ConstraintKids : BuildInsert(KidConstraint(k))

\* ConstraintSet::use_
BuildUse == \E u \in ConstraintUses : BuildInsert(UseConstraint(u))

\* ConstraintSet::kty
BuildKty == \E t \in ConstraintKtys : BuildInsert(KtyConstraint(t))

\* ConstraintSet::filter
BuildFilter ==
    /\ \E order \in IterationOrders(constraints) :
           selected' = Filter(order, constrainables)
    /\ fop' = "filter"
    /\ UNCHANGED <<constraints, constrainables, calls, exceptBuild>>

NextBuild ==
    \/ BuildNew
    \/ BuildAlg \/ BuildAlgs \/ BuildKid \/ BuildUse \/ BuildKty
    \/ BuildFilter

SpecBuild == InitBuild /\ [][NextBuild]_vars

-----------------------------------------------------------------------------
(***************************************************************************)
(* SpecRoundTrip: a key is encoded and the encoding handed to the loaders. *)
(***************************************************************************)
InitRoundTrip ==
    /\ key \in PrivateKeys
    /\ alg = None
    /\ bound = [ok |-> FALSE]
    /\ bop = "new"
    /\ LoadIdle
    /\ FilterIdle
    /\ DecideIdle
    /\ CallsIdle
    /\ KeystoreIdle
    /\ UpstreamIdle
    /\ ActivityIdle
    /\ CounterIdle

\* The encoding is handed over as `bytes`; nothing was loaded from it yet.
Encoded(b, op) ==
    /\ bytes' = b
    /\ bop' = op
    /\ password' = None
    /\ loaded' = [ok |-> FALSE]
    /\ lop' = "new"
    /\ UNCHANGED <<key, alg, bound, exceptBindLoad>>

\* key.to_der()
EncodeDer == \E u \in BOOLEAN : Encoded(DerBytes(ToDer(key), u), "to_der")

\* key.to_pkcs8_der()
EncodePkcs8Der ==
    \E u \in BOOLEAN : Encoded(DerBytes(ToPkcs8Der(key), u), "to_pkcs8_der")

\* key.to_pem(line_ending)
EncodePem == Encoded(PemBytes(ToPem(key)), "to_pem")

NextRoundTrip ==
    \/ EncodeDer
    \/ EncodePkcs8Der
    \/ EncodePem
    \/ NextLoad

SpecRoundTrip == InitRoundTrip /\ [][NextRoundTrip]_vars

-----------------------------------------------------------------------------
(***************************************************************************)
(* SpecKeystore: one caller makes a Keystore; the callers clone it, drop   *)
(* it, read its entries one at a time through deref, and ask for the       *)
(* public key set, in any interleaving.                                    *)
(***************************************************************************)
\* Keystore::new(keys), called by c1.
InitKeystore ==
    /\ given \in KeySets
    /\ arcs = <<[strong |-> 1, data |-> given]>>
    /\ handles = [c \in Callers |-> IF c = "c1" THEN 1 ELSE 0]
    /\ callers = [c \in Callers |-> NoCaller]
    /\ FilterIdle
    /\ BindIdle
    /\ LoadIdle
    /\ DecideIdle
    /\ CallsIdle
    /\ UpstreamIdle
    /\ ActivityIdle
    /\ CounterIdle

\* keystore.clone(): caller c gets a clone of the Keystore of caller src.
KeystoreClone(c, src) ==
    /\ handles[c] = 0
    /\ handles[src] # 0
    /\ LET r == ArcClone(arcs, handles[src])
       IN  /\ arcs' = r.heap
           /\ handles' = [handles EXCEPT ![c] = r.ptr]
    /\ UNCHANGED <<callers, given, exceptKeystore>>

\* Caller c drops its Keystore while another one is alive.
KeystoreDrop(c) ==
    /\ handles[c] # 0
    /\ arcs[handles[c]].strong > 1
    /\ arcs' = ArcDrop(arcs, handles[c])
    /\ handles' = [handles EXCEPT ![c] = 0]
    /\ UNCHANGED <<callers, given, exceptKeystore>>

\* Deref: caller c reads the next entry of the set behind its Keystore.
KeystoreRead(c) ==
    /\ handles[c] # 0
    /\ callers[c].pos < Len(arcs[handles[c]].data)
    /\ callers' = [callers EXCEPT
                      ![c].pos = @ + 1,
                      ![c].seen = Append(@, arcs[handles[c]].data[callers[c].pos + 1])]
    /\ UNCHANGED <<arcs, handles, given, exceptKeystore>>

\* keystore.public_jwks()
KeystorePublicJwks(c) ==
    /\ handles[c] # 0
    /\ callers' = [callers EXCEPT
                      ![c].called = TRUE,
                      ![c].jwks = PublicJwks(arcs[handles[c]].data)]
    /\ UNCHANGED <<arcs, handles, given, exceptKeystore>>

NextKeystore ==
    \/ \E c, src \in Callers : KeystoreClone(c, src)
    \/ \E c \in Callers : KeystoreDrop(c)
    \/ \E c \in Callers : KeystoreRead(c)
    \/ \E c \in Callers : KeystorePublicJwks(c)

SpecKeystore == InitKeystore /\ [][NextKeystore]_vars

-----------------------------------------------------------------------------
(***************************************************************************)
(* SpecUpstream: the session steps of test_repository, run for two         *)
(* sessions whose steps interleave.                                        *)
(***************************************************************************)
InitUpstream ==
    /\ sessions = [x \in SessionIds |-> NoRow]
    /\ session = [x \in SessionIds |-> SessionError("NotFound")]
    /\ tpc = [x \in SessionIds |-> "start"]
    /\ link = [x \in SessionIds |-> None]
    /\ FilterIdle
    /\ BindIdle
    /\ LoadIdle
    /\ DecideIdle
    /\ CallsIdle
    /\ KeystoreIdle
    /\ ActivityIdle
    /\ CounterIdle

\* "Start a session": upstream_oauth_session().add(..).await.unwrap()
TestAdd(x) ==
    /\ tpc[x] = "start"
    /\ LET r == SessionAdd(sessions, x)
       IN  /\ sessions' = r.table
           /\ session' = [session EXCEPT ![x] = r.value]
    /\ tpc' = [tpc EXCEPT ![x] = "added"]
    /\ UNCHANGED <<link, exceptUpstream>>

\* "Look it up in the database" / "Reload the session":
\* upstream_oauth_session().lookup(session.id).await.unwrap().expect(..)
TestLookup(x) ==
    /\ tpc[x] \in {"added", "completed", "consumed"}
    /\ SessionLookup(sessions, x).ok
    /\ session' = [session EXCEPT ![x] = SessionLookup(sessions, x)]
    /\ tpc' = [tpc EXCEPT ![x] = CASE tpc[x] = "added" -> "added_reloaded"
                                   [] tpc[x] = "completed" -> "completed_reloaded"
                                   [] tpc[x] = "consumed" -> "consumed_reloaded"]
    /\ UNCHANGED <<sessions, link, exceptUpstream>>

\* complete_with_link(&clock, session, &link, None, None, None).await.unwrap()
TestCompleteWithLink(x) ==
    /\ tpc[x] = "added_reloaded"
    /\ \E l \in LinkIds :
           LET r == SessionCompleteWithLink(sessions, x, session[x], l)
           IN  /\ r.value.ok
               /\ sessions' = r.table
               /\ session' = [session EXCEPT ![x] = r.value]
               /\ link' = [link EXCEPT ![x] = l]
    /\ tpc' = [tpc EXCEPT ![x] = "completed"]
    /\ UNCHANGED exceptUpstream

\* consume(&clock, session).await.unwrap()
TestConsume(x) ==
    /\ tpc[x] = "completed_reloaded"
    /\ LET r == SessionConsume(sessions, x, session[x])
       IN  /\ r.value.ok
           /\ sessions' = r.table
           /\ session' = [session EXCEPT ![x] = r.value]
    /\ tpc' = [tpc EXCEPT ![x] = "consumed"]
    /\ UNCHANGED <<link, exceptUpstream>>

NextUpstream ==
    \/ \E x \in SessionIds : TestAdd(x)
    \/ \E x \in SessionIds : TestLookup(x)
    \/ \E x \in SessionIds : TestCompleteWithLink(x)
    \/ \E x \in SessionIds : TestConsume(x)

SpecUpstream == InitUpstream /\ [][NextUpstream]_vars

-----------------------------------------------------------------------------
(***************************************************************************)
(* SpecActivity and SpecBatchLocks: connections call record_batch_activity *)
(* again and again.  The UPDATE visits the rows of its FROM list in the    *)
(* order of the arrays, takes the row lock of each target (waiting while   *)
(* another connection holds it), and writes a new version from the latest  *)
(* committed one; the locks are held until the connection commits or       *)
(* rolls back.                                                             *)
(***************************************************************************)
ActivityStart ==
    /\ user_sessions = [x \in UserSessionIds |-> UserSession(NullTime, None)]
    /\ rowlocks = [x \in UserSessionIds |-> None]
    /\ txn = [p \in Workers |-> NoTxn]
    /\ FilterIdle
    /\ BindIdle
    /\ LoadIdle
    /\ DecideIdle
    /\ CallsIdle
    /\ KeystoreIdle
    /\ UpstreamIdle

\* One connection; activities of two sessions with every timestamp and
\* address.
InitActivity ==
    /\ callable = [workers |-> {"w1"},
                   pool |-> {Activity(id, at, ip) :
                                id \in {1, 2}, at \in ActivityTimes,
                                ip \in IpAddrs \cup {None}}]
    /\ ActivityStart
    /\ CounterIdle

\* Two connections; activities of three sessions.
InitBatchLocks ==
    /\ callable = [workers |-> Workers,
                   pool |-> {Activity(id, 1, None) : id \in UserSessionIds}]
    /\ ActivityStart
    /\ CounterIdle

\* record_batch_activity(activities) up to the UPDATE: the batch is sorted
\* and split into the three arrays.
CallRecordBatchActivity(p) ==
    /\ p \in callable.workers
    /\ txn[p].state \in {"idle", "committed", "rolled_back"}
    /\ \E batch \in Batches(callable.pool) :
           txn' = [txn EXCEPT ![p] =
                      [NoTxn EXCEPT !.state = IF batch = <<>> THEN "executed"
                                              ELSE "updating",
                                    !.given = batch,
                                    !.activities = SortUnstable(batch),
                                    !.result = IF batch = <<>>
                                               THEN EnsureAffectedRows(0, 0)
                                               ELSE None]]
    /\ UNCHANGED <<user_sessions, rowlocks, callable, exceptActivity>>

\* The rows a call has written so far.
AffectedRows(writes) == Cardinality({x \in UserSessionIds : writes[x].written})

\* The UPDATE reaches the next element of the arrays: it locks the target
\* row and, unless the statement has written that row already, writes it.
\* When the same row is named again further on, either element may be the
\* one that updates it.
UpdateNextRow(p) ==
    /\ txn[p].state = "updating"
    /\ LET i == txn[p].pos + 1
           a == txn[p].activities[i]
           x == a.id
           row == user_sessions[x]
           new == Written(Greatest(a.at, row.last_active_at),
                          Coalesce(a.ip, row.last_active_ip))
           namedAgain == \E j \in (i + 1)..Len(txn[p].activities) :
                             txn[p].activities[j].id = x
       IN  /\ rowlocks[x] \in {None, p}
           /\ rowlocks' = [rowlocks EXCEPT ![x] = p]
           /\ \E writes \in
                  IF txn[p].writes[x].written
                  THEN {txn[p].writes}
                  ELSE {[txn[p].writes EXCEPT ![x] = new]}
                       \cup (IF namedAgain THEN {txn[p].writes} ELSE {}) :
                  txn' = [txn EXCEPT
                             ![p].pos = i,
                             ![p].writes = writes,
                             ![p].state =
                                 IF i = Len(txn[p].activities)
                                 THEN "executed" ELSE "updating",
                             ![p].result =
                                 IF i = Len(txn[p].activities)
                                 THEN EnsureAffectedRows(AffectedRows(writes), i)
                                 ELSE None]
    /\ UNCHANGED <<user_sessions, callable, exceptActivity>>

\* The caller commits: the written versions become the rows, the locks go.
CommitActivity(p) ==
    /\ txn[p].state = "executed"
    /\ user_sessions' =
           [x \in UserSessionIds |->
               IF txn[p].writes[x].written
               THEN UserSession(txn[p].writes[x].last_active_at,
                                txn[p].writes[x].last_active_ip)
               ELSE user_sessions[x]]
    /\ rowlocks' = [x \in UserSessionIds |->
                       IF rowlocks[x] = p THEN None ELSE rowlocks[x]]
    /\ txn' = [txn EXCEPT ![p] = [NoTxn EXCEPT !.state = "committed"]]
    /\ UNCHANGED <<callable, exceptActivity>>

\* The caller gives the transaction up: the written versions and the locks
\* go.
RollbackActivity(p) ==
    /\ txn[p].state = "executed"
    /\ rowlocks' = [x \in UserSessionIds |->
                       IF rowlocks[x] = p THEN None ELSE rowlocks[x]]
    /\ txn' = [txn EXCEPT ![p] = [NoTxn EXCEPT !.state = "rolled_back"]]
    /\ UNCHANGED <<user_sessions, callable, exceptActivity>>

NextActivity ==
    \/ \E p \in Workers : CallRecordBatchActivity(p)
    \/ \E p \in Workers : UpdateNextRow(p)
    \/ \E p \in Workers : CommitActivity(p)
    \/ \E p \in Workers : RollbackActivity(p)

SpecActivity == InitActivity /\ [][NextActivity]_vars

SpecBatchLocks == InitBatchLocks /\ [][NextActivity]_vars

-----------------------------------------------------------------------------
(***************************************************************************)
(* SpecCounter: threads sharing one Counter enter call_method and run it,  *)
(* in every interleaving.                                                  *)
(***************************************************************************)
\* Counter::default()
InitCounter ==
    /\ count = 0
    /\ inflight = [t \in Threads |-> NoCall]
    /\ history = <<>>
    /\ FilterIdle
    /\ BindIdle
    /\ LoadIdle
    /\ DecideIdle
    /\ CallsIdle
    /\ KeystoreIdle
    /\ UpstreamIdle
    /\ ActivityIdle

\* The calls entered so far.
Entered == Len(history) + Cardinality({t \in Threads : inflight[t] # NoCall})

\* Thread t enters call_method(name, args).
EnterCallMethod(t) ==
    /\ inflight[t] = NoCall
    /\ Entered < MaxOps
    /\ \E name \in MethodNames, args \in ArgLists :
           inflight' = [inflight EXCEPT ![t] = [name |-> name, args |-> args]]
    /\ UNCHANGED <<count, history, exceptCounter>>

\* Thread t runs the body of call_method and returns.
RunCallMethod(t) ==
    /\ inflight[t] # NoCall
    /\ LET r == CallMethodResult(count, inflight[t].name, inflight[t].args)
       IN  /\ count' = r.value
           /\ history' = Append(history,
                                [name |-> inflight[t].name,
                                 args |-> inflight[t].args,
                                 before |-> count,
                                 returned |-> r.returned])
    /\ inflight' = [inflight EXCEPT ![t] = NoCall]
    /\ UNCHANGED exceptCounter

NextCounter ==
    \/ \E t \in Threads : EnterCallMethod(t)
    \/ \E t \in Threads : RunCallMethod(t)

SpecCounter == InitCounter /\ [][NextCounter]_vars

-----------------------------------------------------------------------------
(***************************************************************************)
(* Properties of the constraint engine.                                    *)
(***************************************************************************)
\* The positions filter returned.
Returned == {selected[i] : i \in DOMAIN selected}

\* How often position p occurs in the returned vector.
Occurrences(p) == Cardinality({i \in DOMAIN selected : selected[i] = p})

\* Some constraint of the set decides Negative for candidate c.
HasNegative(c) == \E k \in constraints : Decide(k, c) = "Negative"

\* The number of constraints of the set that decide Positive for candidate c.
PositiveCount(c) == Cardinality({k \in constraints : Decide(k, c) = "Positive"})

\* C1: filter returns exactly the candidates no constraint decides Negative
\* for: a candidate with a Negative decision is never returned, whatever the
\* other constraints decide, and every other candidate is returned exactly once.
C1_FilterKeepsExactlyNonNegative ==
    fop = "filter" =>
        /\ \A p \in Returned : p \in DOMAIN constrainables
        /\ \A p \in DOMAIN constrainables :
               IF HasNegative(constrainables[p])
               THEN Occurrences(p) = 0
               ELSE Occurrences(p) = 1

\* C1 witness: after a filter, one candidate was dropped for a single Negative
\* decision although another constraint decided Positive for it, and another
\* candidate was returned.
C1_Witness ==
    /\ fop = "filter"
    /\ \E p \in DOMAIN constrainables :
           /\ \E k \in constraints : Decide(k, constrainables[p]) = "Negative"
           /\ \E k \in constraints : Decide(k, constrainables[p]) = "Positive"
           /\ p \notin Returned
    /\ Returned # {}

\* The three keys and the constraint set of the scoring example.
ExampleK1 == Constrainable("RS256", <<"RS256", "ES256">>, "a", None, "RSA")
ExampleK2 == Constrainable("RS256", <<"RS256", "ES256">>, "b", None, "RSA")
ExampleK3 == Constrainable(None, <<"RS256", "ES256">>, "a", None, "RSA")
ExampleConstraints == {KidConstraint("a"), AlgConstraint("RS256")}

\* C2: the returned candidates are in ascending order of score, the score
\* being the number of constraints deciding Positive: of two returned
\* candidates the one with the strictly higher score comes later. In the
\* example (kid=a and alg=RS256 over K1, K2, K3) K2 is dropped and K1, with
\* score 2, comes after K3, with score 1.
C2_FilterSortsAscendingByScore ==
    fop = "filter" =>
        /\ \A i, j \in DOMAIN selected :
               PositiveCount(constrainables[selected[i]])
                   < PositiveCount(constrainables[selected[j]]) => i < j
        /\ (constraints = ExampleConstraints
            /\ constrainables = <<ExampleK1, ExampleK2, ExampleK3>>)
               => selected = <<3, 1>>

\* C2 witness: the example was filtered, and the last element is the one with
\* the highest score.
C2_Witness ==
    /\ fop = "filter"
    /\ constraints = ExampleConstraints
    /\ constrainables = <<ExampleK1, ExampleK2, ExampleK3>>
    /\ Len(selected) = 2
    /\ PositiveCount(constrainables[selected[1]]) = 1
    /\ PositiveCount(constrainables[selected[2]]) = 2

-----------------------------------------------------------------------------
(***************************************************************************)
(* Properties of algorithm binding.                                        *)
(***************************************************************************)
\* The compatibility table of key variants and signature algorithms.
CompatibilityTable ==
    ({"Rsa"} \X {"RS256", "RS384", "RS512", "PS256", "PS384", "PS512"})
    \cup {<<"EcP256", "ES256">>, <<"EcP384", "ES384">>, <<"EcK256", "ES256K">>}

\* C3: signing_key_for_alg and verifying_key_for_alg succeed exactly on the
\* pairs of the compatibility table, fail with WrongAlgorithmError on every
\* other pair, and a returned handle is bound to the requested algorithm and
\* to the key it was asked of.
C3_BindingIffCompatible ==
    bop \in {"signing_key_for_alg", "verifying_key_for_alg"} =>
        /\ bound.ok <=> <<key.variant, alg>> \in CompatibilityTable
        /\ ~bound.ok => bound = WrongAlgorithmError
        /\ bound.ok =>
               /\ HandleAlg(bound.handle) = alg
               /\ bound.handle.variant = key.variant
               /\ bound.handle.kind = "signing" => bound.handle.private = key.material
               /\ bound.handle.kind = "verifying" =>
                      bound.handle.public_of = key.material

\* C3 witness: a binding was refused for an EC key asked for the algorithm of
\* another curve.
C3_Witness ==
    /\ bop = "signing_key_for_alg"
    /\ key.variant = "EcK256"
    /\ alg = "ES256"
    /\ bound = WrongAlgorithmError

-----------------------------------------------------------------------------
(***************************************************************************)
(* Properties of the loaders.                                              *)
(***************************************************************************)
\* The input is a PEM text: valid UTF-8 that decodes as a PEM container.
IsPem(b) == b.utf8 /\ b.pem.ok

\* The result is the error of the given kind.
ErrIs(r, kind) == ~r.ok /\ r.err = kind

\* Some unencrypted DER structure parses.
PlainParses(der) == der.pkcs8.ok \/ der.sec1.ok \/ der.pkcs1.ok

\* The encrypted container an encrypted loader finds in its input, if any.
ContainerOf(op, b) ==
    IF op = "load_encrypted_pem" \/ (op = "load_encrypted" /\ IsPem(b))
    THEN IF b.pem.ok /\ b.pem.label = EncryptedLabel THEN b.pem.doc.enc ELSE NoParse
    ELSE b.der.enc

\* C4: load never returns a key for an encrypted container: a PEM document
\* with the encrypted PKCS#8 label, and DER bytes that parse as an encrypted
\* PKCS#8 container, fail with Encrypted (in load, load_pem and load_der).
C4_LoadRefusesEncrypted ==
    /\ lop = "load" /\ IsPem(bytes) /\ bytes.pem.label = EncryptedLabel
           => loaded = LoadErr("Encrypted")
    /\ lop = "load" /\ ~IsPem(bytes) /\ bytes.der.enc.ok
           => loaded = LoadErr("Encrypted")
    /\ lop = "load_pem" /\ bytes.pem.ok /\ bytes.pem.label = EncryptedLabel
           => loaded = LoadErr("Encrypted")
    /\ lop = "load_der" /\ bytes.der.enc.ok
           => loaded = LoadErr("Encrypted")

\* C4 witness: load was given DER bytes holding an encrypted container around a
\* well-formed key, and refused them.
C4_Witness ==
    /\ lop = "load"
    /\ ~bytes.utf8
    /\ bytes.der.enc.ok
    /\ LoadDer(bytes.der.enc.inner).ok
    /\ loaded = LoadErr("Encrypted")

\* C5: load_encrypted never returns a key for unencrypted input: a PEM
\* document with the PKCS#1, plain PKCS#8 or SEC1 label, and DER bytes that do
\* not parse as an encrypted container but as one of the plain structures,
\* fail with Unencrypted whatever the password; DER bytes that parse as none
\* of the four fail with UnsupportedFormat.
C5_LoadEncryptedRefusesUnencrypted ==
    /\ (lop \in {"load_encrypted", "load_encrypted_pem"} /\ IsPem(bytes)
        /\ bytes.pem.label \in {Pkcs1Label, Pkcs8Label, Sec1Label})
           => loaded = LoadErr("Unencrypted")
    /\ ((lop = "load_encrypted" /\ ~IsPem(bytes)) \/ lop = "load_encrypted_der")
           => /\ (~bytes.der.enc.ok /\ PlainParses(bytes.der))
                  => loaded = LoadErr("Unencrypted")
              /\ (~bytes.der.enc.ok /\ ~PlainParses(bytes.der))
                  => loaded = LoadErr("UnsupportedFormat")
    /\ (lop \in {"load_encrypted", "load_encrypted_pem", "load_encrypted_der"}
        /\ loaded.ok)
           => ContainerOf(lop, bytes).ok

\* C5 witness: load_encrypted was given the DER bytes of a well-formed plain
\* PKCS#8 key and the password others are encrypted under, and refused them.
C5_Witness ==
    /\ lop = "load_encrypted"
    /\ ~IsPem(bytes)
    /\ ~bytes.der.enc.ok
    /\ bytes.der.pkcs8.ok
    /\ LoadDer(bytes.der).ok
    /\ password \in Secrets
    /\ loaded = LoadErr("Unencrypted")

\* C6: in load and load_encrypted, input that is valid UTF-8 but fails PEM
\* decoding is not rejected with the PEM error: the call returns what the DER
\* loader returns on the raw bytes; input that is not valid UTF-8 goes to the
\* DER loader as well.
C6_MalformedPemFallsThroughToDer ==
    /\ lop = "load" /\ ~IsPem(bytes)
           => loaded = LoadDer(bytes.der) /\ ~ErrIs(loaded, "Pem")
    /\ lop = "load_encrypted" /\ ~IsPem(bytes)
           => loaded = LoadEncryptedDer(bytes.der, password) /\ ~ErrIs(loaded, "Pem")

\* C6 witness: load was given valid UTF-8 that is no PEM container, and
\* returned the key its DER parse holds.
C6_Witness ==
    /\ lop = "load"
    /\ bytes.utf8
    /\ ~bytes.pem.ok
    /\ loaded.ok

\* C7: in load, when the input decodes as a PEM container, the result of the
\* PEM path is the result of the call: an error of the PEM path is returned as
\* it is and is never replaced by an error of the DER loader.
C7_PemPathErrorsNotMasked ==
    lop = "load" /\ IsPem(bytes) =>
        /\ loaded = LoadPem(bytes.pem)
        /\ ~ErrIs(loaded, "Pem")
        /\ ~ErrIs(loaded, "UnsupportedFormat")

\* C7 witness: load was given a PEM container with an unsupported label and
\* returned UnsupportedPemLabel.
C7_Witness ==
    /\ lop = "load"
    /\ IsPem(bytes)
    /\ ErrIs(loaded, "UnsupportedPemLabel")

\* C8: load_der decides by the first structure that parses, in the order
\* encrypted PKCS#8 (Encrypted), plain PKCS#8, SEC1, PKCS#1, and fails with
\* UnsupportedFormat exactly when none parses.
C8_LoadDerOrder ==
    lop = "load_der" =>
        LET der == bytes.der
        IN  /\ der.enc.ok => loaded = LoadErr("Encrypted")
            /\ ~der.enc.ok /\ der.pkcs8.ok => loaded = FromPrivateKeyInfo(der.pkcs8)
            /\ ~der.enc.ok /\ ~der.pkcs8.ok /\ der.sec1.ok
                   => loaded = FromEcPrivateKey(der.sec1)
            /\ ~der.enc.ok /\ ~der.pkcs8.ok /\ ~der.sec1.ok /\ der.pkcs1.ok
                   => loaded = FromPkcs1PrivateKey(der.pkcs1)
            /\ ErrIs(loaded, "UnsupportedFormat")
                   <=> ~(der.enc.ok \/ der.pkcs8.ok \/ der.sec1.ok \/ der.pkcs1.ok)

\* C8 witness: load_der was given bytes that parse both as PKCS#8 and as SEC1,
\* and returned the RSA key of the PKCS#8 reading, not the EC key of the SEC1
\* reading.
C8_Witness ==
    /\ lop = "load_der"
    /\ ~bytes.der.enc.ok
    /\ bytes.der.pkcs8.ok
    /\ bytes.der.sec1.ok
    /\ loaded.ok
    /\ loaded.key.variant = "Rsa"
    /\ FromEcPrivateKey(bytes.der.sec1).ok

\* C9: load_pem dispatches on the label alone: the body under the PKCS#1,
\* PKCS#8 or SEC1 label is parsed as that structure only (a body that is not
\* that structure is a DER error, whatever else it would parse as), the
\* encrypted label fails with Encrypted, and any other label fails with
\* UnsupportedPemLabel carrying the label.
C9_LoadPemDispatchesOnLabel ==
    lop = "load_pem" /\ bytes.pem.ok =>
        LET label == bytes.pem.label
            doc == bytes.pem.doc
        IN  /\ label = Pkcs1Label =>
                   IF doc.pkcs1.ok
                   THEN loaded = FromPkcs1PrivateKey(doc.pkcs1)
                   ELSE loaded = LoadErr("Der")
            /\ label = Pkcs8Label =>
                   IF doc.pkcs8.ok
                   THEN loaded = FromPrivateKeyInfo(doc.pkcs8)
                   ELSE loaded = LoadErr("Der")
            /\ label = Sec1Label =>
                   IF doc.sec1.ok
                   THEN loaded = FromEcPrivateKey(doc.sec1)
                   ELSE loaded = LoadErr("Der")
            /\ label = EncryptedLabel => loaded = LoadErr("Encrypted")
            /\ label \notin {Pkcs1Label, Pkcs8Label, Sec1Label, EncryptedLabel}
                   => loaded = UnsupportedPemLabel(label)

\* C9 witness: load_pem was given the PKCS#1 label over a body that is a
\* well-formed PKCS#8 key, and failed instead of loading that key.
C9_Witness ==
    /\ lop = "load_pem"
    /\ bytes.pem.ok
    /\ bytes.pem.label = Pkcs1Label
    /\ ~bytes.pem.doc.pkcs1.ok
    /\ LoadDer(bytes.pem.doc).ok
    /\ loaded = LoadErr("Der")

\* C10: once an encrypted loader has decrypted a container, the result is that
\* of the unencrypted DER loader on the decrypted bytes, and every error of
\* that loader (Encrypted for a nested container and UnsupportedFormat
\* included) is returned as InEncrypted around it, never bare.
C10_InnerErrorsWrapped ==
    lop \in {"load_encrypted", "load_encrypted_pem", "load_encrypted_der"} =>
        LET container == ContainerOf(lop, bytes)
        IN  container.ok /\ password = container.secret =>
                LET r == LoadDer(container.inner)
                IN  /\ r.ok => loaded = r
                    /\ ~r.ok => loaded = InEncrypted(r)
                    /\ container.inner.enc.ok
                           => loaded = InEncrypted(LoadErr("Encrypted"))
                    /\ container.inner = Garbage
                           => loaded = InEncrypted(LoadErr("UnsupportedFormat"))
                    /\ loaded.ok \/ loaded.err = "InEncrypted"

\* C10 witness: load_encrypted decrypted a container that holds another
\* encrypted container, and returned InEncrypted around Encrypted.
C10_Witness ==
    /\ lop = "load_encrypted"
    /\ ~IsPem(bytes)
    /\ bytes.der.enc.ok
    /\ password = bytes.der.enc.secret
    /\ bytes.der.enc.inner.enc.ok
    /\ loaded = InEncrypted(LoadErr("Encrypted"))

\* An encrypted loader found a container and the decryption step failed.
DecryptionFailed ==
    /\ lop \in {"load_encrypted", "load_encrypted_pem", "load_encrypted_der"}
    /\ ContainerOf(lop, bytes).ok
    /\ password # ContainerOf(lop, bytes).secret

\* C11 as stated: when the decryption step of an encrypted loader fails, the
\* error returned is InEncrypted around the decryption error.
C11_DecryptErrorWrapped ==
    DecryptionFailed =>
        loaded = InEncrypted(LoadErrInner("Pkcs8", "EncryptedPrivateKey"))

\* C11 amended: when the decryption step of an encrypted loader fails, the
\* decryption error is returned as it is, as the PKCS#8 error, and not as
\* InEncrypted; InEncrypted is returned only for errors of the DER loader on
\* the decrypted bytes.
C11_DecryptErrorReturnedBare ==
    /\ DecryptionFailed => loaded = LoadErrInner("Pkcs8", "EncryptedPrivateKey")
    /\ (lop \in {"load_encrypted", "load_encrypted_pem", "load_encrypted_der"}
        /\ ErrIs(loaded, "InEncrypted"))
           => /\ ContainerOf(lop, bytes).ok
              /\ password = ContainerOf(lop, bytes).secret
              /\ loaded.inner = LoadDer(ContainerOf(lop, bytes).inner)

\* C11 witness: load_encrypted was given a well-formed encrypted container and
\* a wrong password, and returned the PKCS#8 decryption error.
C11_Witness ==
    /\ lop = "load_encrypted"
    /\ bytes.der.enc.ok
    /\ LoadDer(bytes.der.enc.inner).ok
    /\ password \notin Secrets
    /\ loaded = LoadErrInner("Pkcs8", "EncryptedPrivateKey")

\* C15: filtering with an empty ConstraintSet returns every candidate exactly
\* once, in the order of the input collection.
C15_EmptySetReturnsAllInOrder ==
    (fop = "filter" /\ constraints = {}) =>
        selected = [i \in 1..Len(constrainables) |-> i]

\* C15 witness: an empty set filtered a collection of three candidates, not
\* all alike, and returned the three positions in input order.
C15_Witness ==
    /\ fop = "filter"
    /\ constraints = {}
    /\ Len(constrainables) = 3
    /\ constrainables[1] # constrainables[2]
    /\ selected = <<1, 2, 3>>

\* C16: among the returned candidates, two with the same score are in the
\* same relative order as in the input collection, for every constraint set
\* and every input order.
C16_EqualScoresKeepInputOrder ==
    fop = "filter" =>
        \A i, j \in DOMAIN selected :
            (/\ i < j
             /\ PositiveCount(constrainables[selected[i]])
                    = PositiveCount(constrainables[selected[j]]))
                => selected[i] < selected[j]

\* C16 witness: the sort moved a candidate of greater score behind two
\* candidates of equal, smaller score, which kept their input order.
C16_Witness ==
    /\ fop = "filter"
    /\ Len(selected) = 3
    /\ selected = <<2, 3, 1>>
    /\ PositiveCount(constrainables[2]) = PositiveCount(constrainables[3])
    /\ PositiveCount(constrainables[2]) < PositiveCount(constrainables[1])

\* C17: the result of filter (which candidates are returned, with which
\* scores, in which order) is the same for every order in which the set
\* iterates over its constraints, and so for every order of insertion.
C17_IterationOrderIrrelevant ==
    fop = "filter" =>
        \A order \in IterationOrders(constraints) :
            /\ Filter(order, constrainables) = selected
            /\ \A p \in Returned :
                   ScoreFrom(order, 1, constrainables[p], 0)
                       = [keep |-> TRUE,
                          score |-> PositiveCount(constrainables[p])]

\* C17 witness: a set of two constraints filtered a collection in which one
\* candidate is refused by one constraint and preferred by the other, so its
\* running score at the refusal differs between the two iteration orders,
\* and at least two candidates were returned.
C17_Witness ==
    /\ fop = "filter"
    /\ Cardinality(constraints) = 2
    /\ Len(selected) >= 2
    /\ \E p \in DOMAIN constrainables :
           \E o1, o2 \in IterationOrders(constraints) :
               /\ ~ScoreFrom(o1, 1, constrainables[p], 0).keep
               /\ ScoreFrom(o1, 1, constrainables[p], 0)
                      # ScoreFrom(o2, 1, constrainables[p], 0)

\* The distinct constraints among those given so far.
Given == {calls[i] : i \in DOMAIN calls}

\* The constraints given so far without the repetitions, each at the place
\* of its first occurrence.
RECURSIVE WithoutRepetitions(_)
WithoutRepetitions(s) ==
    IF s = <<>>
    THEN <<>>
    ELSE LET init == SubSeq(s, 1, Len(s) - 1)
             last == s[Len(s)]
         IN  IF \E i \in DOMAIN init : init[i] = last
             THEN WithoutRepetitions(init)
             ELSE Append(WithoutRepetitions(init), last)

\* C18: a constraint equal by value to one already in the set, given to new,
\* from_iter or a builder, leaves the set unchanged: the set holds each
\* distinct constraint given once. A repeated constraint is evaluated once,
\* so a returned candidate's score counts a repeated Positive once, and
\* every filter result is the one obtained without the repetitions.
C18_DuplicatesCollapse ==
    /\ constraints = Given
    /\ Cardinality(constraints) = Len(WithoutRepetitions(calls))
    /\ fop = "filter" =>
           /\ selected = Filter(WithoutRepetitions(calls), constrainables)
           /\ \A p \in Returned :
                  \A order \in IterationOrders(constraints) :
                      ScoreFrom(order, 1, constrainables[p], 0).score
                          = Cardinality({k \in Given :
                                Decide(k, constrainables[p]) = "Positive"})

\* C18 witness: the same constraint was given three times, the set holds it
\* once, and the filter returned a candidate it decides Positive for, with
\* score one.
C18_Witness ==
    /\ fop = "filter"
    /\ Len(calls) = 3
    /\ Cardinality(constraints) = 1
    /\ \E p \in Returned :
           /\ \A k \in constraints : Decide(k, constrainables[p]) = "Positive"
           /\ \A order \in IterationOrders(constraints) :
                  ScoreFrom(order, 1, constrainables[p], 0).score = 1

-----------------------------------------------------------------------------
(***************************************************************************)
(* Properties of Constraint::decide.                                       *)
(***************************************************************************)
\* The algorithms a candidate lists as possible.
PossibleAlgs(c) == {c.algs[i] : i \in DOMAIN c.algs}

\* decide was called on a constraint of the given kind.
Decided(type) == decision # None /\ dconstraint.type = type

\* C12: an exact-algorithm constraint for A decides Positive for a candidate
\* with a fixed algorithm equal to A and Negative for one with a different
\* fixed algorithm, whatever its possible list holds; for a candidate with no
\* fixed algorithm it decides Neutral when A is among the possible algorithms
\* and Negative otherwise, so always Negative on an empty possible list.
C12_ExactAlgDecision ==
    Decided("Alg") =>
        LET A == dconstraint.constraint_alg
            c == dconstrainable
        IN  /\ (c.alg # None /\ c.alg = A) => decision = "Positive"
            /\ (c.alg # None /\ c.alg # A) => decision = "Negative"
            /\ (c.alg = None /\ A \in PossibleAlgs(c)) => decision = "Neutral"
            /\ (c.alg = None /\ A \notin PossibleAlgs(c)) => decision = "Negative"
            /\ (c.alg = None /\ c.algs = <<>>) => decision = "Negative"

\* C12 witness: the candidate's fixed algorithm differs from A while A is in
\* its possible list, and the decision was Negative.
C12_Witness ==
    /\ Decided("Alg")
    /\ dconstrainable.alg \notin {None, dconstraint.constraint_alg}
    /\ dconstraint.constraint_alg \in PossibleAlgs(dconstrainable)
    /\ decision = "Negative"

\* C13: an algorithm-allowlist constraint with list L decides Positive for a
\* candidate whose fixed algorithm is in L and Negative for one whose fixed
\* algorithm is not; for a candidate with no fixed algorithm it decides
\* Neutral when some possible algorithm is in L and Negative otherwise, so an
\* empty L decides Negative for every candidate.
C13_AllowlistDecision ==
    Decided("Algs") =>
        LET L == {dconstraint.constraint_algs[i] :
                      i \in DOMAIN dconstraint.constraint_algs}
            c == dconstrainable
        IN  /\ (c.alg # None /\ c.alg \in L) => decision = "Positive"
            /\ (c.alg # None /\ c.alg \notin L) => decision = "Negative"
            /\ (c.alg = None /\ PossibleAlgs(c) \cap L # {})
                   => decision = "Neutral"
            /\ (c.alg = None /\ PossibleAlgs(c) \cap L = {})
                   => decision = "Negative"
            /\ L = {} => decision = "Negative"

\* C13 witness: a candidate without fixed algorithm and without possible
\* algorithms was decided Negative by a non-empty allowlist.
C13_Witness ==
    /\ Decided("Algs")
    /\ dconstraint.constraint_algs # <<>>
    /\ dconstrainable.alg = None
    /\ dconstrainable.algs = <<>>
    /\ decision = "Negative"

\* C14: a kid (use) constraint decides Neutral for a candidate that declares
\* no kid (use), Positive when the declared value equals the constraint's and
\* Negative when it is declared and differs; a kty constraint never decides
\* Neutral: Positive when the key type is equal, Negative otherwise.
C14_KidUseKtyDecision ==
    LET c == dconstrainable
    IN  /\ Decided("Kid") =>
              decision = IF c.kid = None THEN "Neutral"
                         ELSE IF c.kid = dconstraint.constraint_kid
                              THEN "Positive" ELSE "Negative"
        /\ Decided("Use") =>
              decision = IF c.use_ = None THEN "Neutral"
                         ELSE IF c.use_ = dconstraint.constraint_use
                              THEN "Positive" ELSE "Negative"
        /\ Decided("Kty") =>
              /\ decision # "Neutral"
              /\ decision = "Positive" <=> c.kty = dconstraint.constraint_kty

\* C14 witness: a candidate declaring no kid was decided Neutral by a kid
\* constraint.
C14_Witness ==
    /\ Decided("Kid")
    /\ dconstrainable.kid = None
    /\ decision = "Neutral"

-----------------------------------------------------------------------------
(***************************************************************************)
(* Properties of the conversions behind the unencrypted loaders.           *)
(***************************************************************************)
PlainLoaders == {"load", "load_pem", "load_der"}

\* The unencrypted loader `op` reads its input as PEM text.
TakesPemPath(op, b) == op = "load_pem" \/ (op = "load" /\ IsPem(b))

\* The structure of kind `field` (with PEM label `label`) that the loader
\* hands to its conversion: the body under that label on the PEM path, the
\* first structure that parses on the DER path; NoParse when the loader does
\* not get to a structure of that kind.
Decoded(op, b, field, label) ==
    IF TakesPemPath(op, b)
    THEN IF b.pem.ok /\ b.pem.label = label THEN b.pem.doc[field] ELSE NoParse
    ELSE IF b.der.enc.ok
              \/ (field \in {"sec1", "pkcs1"} /\ b.der.pkcs8.ok)
              \/ (field = "pkcs1" /\ b.der.sec1.ok)
         THEN NoParse
         ELSE b.der[field]

DecodedSec1 == Decoded(lop, bytes, "sec1", Sec1Label)
DecodedPkcs8 == Decoded(lop, bytes, "pkcs8", Pkcs8Label)
DecodedPkcs1 == Decoded(lop, bytes, "pkcs1", Pkcs1Label)

\* C21: decoding a SEC1 key without parameters fails with
\* MissingSec1Parameters, and one whose parameters carry no named curve fails
\* with MissingSec1CurveName, whatever the key field holds; the two errors
\* differ from each other and from the DER error, no key is returned, and no
\* other SEC1 key gets either error.
C21_MissingSec1ParametersErrors ==
    (lop \in PlainLoaders /\ DecodedSec1.ok) =>
        /\ DecodedSec1.parameters = None
               <=> loaded = LoadErr("MissingSec1Parameters")
        /\ DecodedSec1.parameters = "unnamed"
               <=> loaded = LoadErr("MissingSec1CurveName")
        /\ DecodedSec1.parameters \in {None, "unnamed"} =>
               /\ ~loaded.ok
               /\ loaded.err # "Der"
        /\ LoadErr("MissingSec1Parameters") # LoadErr("MissingSec1CurveName")

\* C21 witness: load_der was given a SEC1 key without parameters whose key
\* field is a good key, and answered MissingSec1Parameters.
C21_Witness ==
    /\ lop = "load_der"
    /\ DecodedSec1.ok
    /\ DecodedSec1.parameters = None
    /\ DecodedSec1.private_key.valid
    /\ loaded = LoadErr("MissingSec1Parameters")

\* The variant each curve identifier names.
VariantOfCurve(oid) ==
    CASE oid = "secp256r1" -> "EcP256"
      [] oid = "secp384r1" -> "EcP384"
      [] oid = "secp256k1" -> "EcK256"
      [] OTHER -> None

\* C22: a key is loaded only as the variant its identifiers name.  A SEC1
\* key, or a PKCS#8 key of the EC algorithm, with the curve P-256, P-384 or
\* secp256k1 loads as EcP256, EcP384 or EcK256, and with any other curve
\* fails with UnknownEllipticCurveOid; a PKCS#8 key of the RSA algorithm loads
\* as Rsa, and one of another algorithm fails with UnknownAlgorithmOid.  A key
\* field the key type rejects gives an error, never another variant.
C22_VariantNamedByIdentifiers ==
    lop \in PlainLoaders =>
        /\ (DecodedSec1.ok /\ DecodedSec1.parameters \in CurveOids) =>
               LET q == DecodedSec1.parameters
               IN  IF VariantOfCurve(q) = None
                   THEN loaded = UnknownEllipticCurveOid(q)
                   ELSE IF DecodedSec1.private_key.valid
                        THEN loaded = Loaded(VariantOfCurve(q),
                                             DecodedSec1.private_key.material)
                        ELSE ~loaded.ok
        /\ (DecodedPkcs8.ok /\ DecodedPkcs8.oid = "id-ecPublicKey"
            /\ DecodedPkcs8.parameters # None) =>
               LET q == DecodedPkcs8.parameters
               IN  IF VariantOfCurve(q) = None
                   THEN loaded = UnknownEllipticCurveOid(q)
                   ELSE IF DecodedPkcs8.private_key.valid
                        THEN loaded = Loaded(VariantOfCurve(q),
                                             DecodedPkcs8.private_key.material)
                        ELSE ~loaded.ok
        /\ (DecodedPkcs8.ok /\ DecodedPkcs8.oid = "rsaEncryption") =>
               IF DecodedPkcs8.private_key.valid
               THEN loaded = Loaded("Rsa", DecodedPkcs8.private_key.material)
               ELSE ~loaded.ok
        /\ (DecodedPkcs8.ok
            /\ DecodedPkcs8.oid \notin {"rsaEncryption", "id-ecPublicKey"}) =>
               loaded = UnknownAlgorithmOid(DecodedPkcs8.oid)

\* C22 witness: load read a PKCS#8 PEM document of the EC algorithm on the
\* curve P-521 with a good key field, and answered UnknownEllipticCurveOid
\* with that curve.
C22_Witness ==
    /\ lop = "load"
    /\ IsPem(bytes)
    /\ DecodedPkcs8.ok
    /\ DecodedPkcs8.oid = "id-ecPublicKey"
    /\ DecodedPkcs8.parameters = "secp521r1"
    /\ DecodedPkcs8.private_key.valid
    /\ loaded = UnknownEllipticCurveOid("secp521r1")

\* C23: a PKCS#1 key whose version is not two-prime fails with the PKCS#1
\* version error and yields no key, on the PEM path and on the DER path,
\* also when its components would make a good key.
C23_MultiPrimeRejected ==
    (lop \in PlainLoaders /\ DecodedPkcs1.ok
     /\ DecodedPkcs1.version # "TwoPrime") =>
        /\ loaded = LoadErrInner("Pkcs1", "Version")
        /\ ~loaded.ok

\* C23 witness: load read a PKCS#1 PEM document of a multi-prime key with
\* good components and answered the version error.
C23_Witness ==
    /\ lop = "load"
    /\ IsPem(bytes)
    /\ DecodedPkcs1.ok
    /\ DecodedPkcs1.version = "Multi"
    /\ DecodedPkcs1.components.valid
    /\ loaded = LoadErrInner("Pkcs1", "Version")

-----------------------------------------------------------------------------
(***************************************************************************)
(* Properties of the encoders.                                             *)
(***************************************************************************)
\* The last encoder called on `key`, whose output `bytes` holds.
EncodedBy(ops) == bop \in ops

\* The document in `bytes`: the body of the PEM text, or the DER bytes.
EncodedDocument == IF bytes.pem.ok THEN bytes.pem.doc ELSE bytes.der

\* C19: for every PrivateKey variant and every encoding produced by to_der,
\* to_pem or to_pkcs8_der, PrivateKey::load of the encoding succeeds and
\* returns a key of the same variant with the same key material, so the
\* signing and verifying handles of the two keys are the same.
C19_EncodeLoadRoundTrip ==
    (EncodedBy({"to_der", "to_pem", "to_pkcs8_der"}) /\ lop = "load") =>
        /\ loaded.ok
        /\ loaded.key.variant = key.variant
        /\ loaded.key.material = key.material
        /\ \A a \in JsonWebSignatureAlgs :
               /\ SigningKeyForAlg(loaded.key, a) = SigningKeyForAlg(key, a)
               /\ VerifyingKeyForAlg(loaded.key, a) = VerifyingKeyForAlg(key, a)

\* C19 witness: an elliptic curve key was encoded by to_pkcs8_der into bytes
\* that are valid UTF-8, and load returned the key.
C19_Witness ==
    /\ bop = "to_pkcs8_der"
    /\ key.variant = "EcK256"
    /\ bytes.utf8
    /\ lop = "load"
    /\ loaded = [ok |-> TRUE, key |-> key]

\* The named curve of each elliptic curve variant.
CurveName(variant) ==
    CASE variant = "EcP256" -> "secp256r1"
      [] variant = "EcP384" -> "secp384r1"
      [] variant = "EcK256" -> "secp256k1"

\* C20: for every elliptic curve variant, the SEC1 document produced by
\* to_der and to_pem carries the object identifier of the variant's named
\* curve as parameters and the uncompressed public point as public key, so
\* loading it again never fails with MissingSec1Parameters or
\* MissingSec1CurveName.
C20_Sec1CarriesCurveAndPoint ==
    (EncodedBy({"to_der", "to_pem"}) /\ key.variant # "Rsa") =>
        /\ EncodedDocument.sec1.ok
        /\ EncodedDocument.sec1.parameters = CurveName(key.variant)
        /\ EncodedDocument.sec1.public_key = "uncompressed"
        /\ EncodedDocument.sec1.private_key = [valid |-> TRUE,
                                               material |-> key.material]
        /\ bop = "to_pem" => bytes.pem.label = "EC PRIVATE KEY"
        /\ lop \in {"load", "load_der", "load_pem"} =>
               /\ ~ErrIs(loaded, "MissingSec1Parameters")
               /\ ~ErrIs(loaded, "MissingSec1CurveName")

\* C20 witness: a P-384 key was encoded by to_pem with the curve and the
\* uncompressed point, and load_pem returned the key from it.
C20_Witness ==
    /\ bop = "to_pem"
    /\ key.variant = "EcP384"
    /\ bytes.pem.doc.sec1.parameters = "secp384r1"
    /\ bytes.pem.doc.sec1.public_key = "uncompressed"
    /\ lop = "load_pem"
    /\ loaded = [ok |-> TRUE, key |-> key]

-----------------------------------------------------------------------------
(***************************************************************************)
(* Properties of the Keystore.                                             *)
(***************************************************************************)
\* The curve a public point of each elliptic curve variant is on.
CurveOfVariant(variant) ==
    CASE variant = "EcP256" -> "P-256"
      [] variant = "EcP384" -> "P-384"
      [] variant = "EcK256" -> "secp256k1"

\* C24: public_jwks returns a key set with one entry per stored key, in the
\* same order, each with the key id, usage and algorithm of the stored entry
\* and with the public parameters of that entry's key in place of the private
\* key: the RSA public key of an Rsa key, the public point on the variant's
\* curve of an EC key.  The stored set is left as it was given.
C24_PublicJwksMirrorsStore ==
    \A c \in Callers :
        callers[c].called =>
            LET jwks == callers[c].jwks
            IN  /\ Len(jwks) = Len(given)
                /\ \A i \in DOMAIN given :
                       /\ jwks[i].kid = given[i].kid
                       /\ jwks[i].use_ = given[i].use_
                       /\ jwks[i].alg = given[i].alg
                       /\ jwks[i].parameters.public_of
                              = given[i].parameters.material
                       /\ IF given[i].parameters.variant = "Rsa"
                          THEN /\ jwks[i].parameters.kty = "RSA"
                               /\ jwks[i].parameters.crv = None
                          ELSE /\ jwks[i].parameters.kty = "EC"
                               /\ jwks[i].parameters.crv
                                      = CurveOfVariant(given[i].parameters.variant)
                /\ \A h \in DOMAIN arcs : arcs[h].data = given

\* C24 witness: public_jwks was called on a store of an RSA key with a key id
\* and a secp256k1 key without one, in this order.
C24_Witness ==
    /\ callers["c2"].called
    /\ Len(given) = 2
    /\ given[1].parameters.variant = "Rsa"
    /\ given[1].kid = "a"
    /\ given[2].parameters.variant = "EcK256"
    /\ given[2].kid = None
    /\ callers["c2"].jwks[2].parameters.crv = "secp256k1"

\* C25: a Keystore is never changed after it was made.  Clone, drop, reads
\* through deref and public_jwks, by any callers in any interleaving, leave
\* the key set as given to Keystore::new; every caller reads the given
\* entries in the given order; and every clone points to the one allocation
\* Keystore::new made, which counts the Keystores alive.
C25_KeystoreImmutableAndShared ==
    /\ Len(arcs) = 1
    /\ arcs[1].data = given
    /\ arcs[1].strong = Cardinality({c \in Callers : handles[c] # 0})
    /\ \A c \in Callers :
           /\ handles[c] \in {0, 1}
           /\ callers[c].seen = SubSeq(given, 1, callers[c].pos)

\* C25 witness: two Keystores are alive, and the two callers are at
\* different places of a set of two different entries, one having called
\* public_jwks in between.
C25_Witness ==
    /\ handles["c1"] = 1
    /\ handles["c2"] = 1
    /\ Len(given) = 2
    /\ given[1] # given[2]
    /\ callers["c1"].pos = 1
    /\ callers["c2"].pos = 2
    /\ callers["c2"].called

-----------------------------------------------------------------------------
(***************************************************************************)
(* Properties of the upstream OAuth authorization sessions.                *)
(***************************************************************************)
\* C26: a session moves through its states in order, as seen by reloading it
\* after each step: reloaded after add it is pending, not completed, not
\* consumed and has no link; reloaded after complete_with_link it is
\* completed, not consumed, and its link is the given one; reloaded after
\* consume it is consumed.  The steps of another session change nothing of
\* it, and no step of the sequence fails.
C26_SessionStatesInOrder ==
    \A x \in SessionIds :
        /\ tpc[x] = "added_reloaded" =>
               /\ IsPending(session[x])
               /\ ~IsCompleted(session[x])
               /\ ~IsConsumed(session[x])
               /\ LinkId(session[x]) = None
        /\ tpc[x] = "completed_reloaded" =>
               /\ IsCompleted(session[x])
               /\ ~IsConsumed(session[x])
               /\ LinkId(session[x]) = link[x]
               /\ link[x] \in LinkIds
        /\ tpc[x] = "consumed_reloaded" =>
               IsConsumed(session[x])
        /\ tpc[x] \in {"added", "completed", "consumed"} =>
               SessionLookup(sessions, x).ok
        /\ tpc[x] = "added_reloaded" =>
               \A l \in LinkIds :
                   SessionCompleteWithLink(sessions, x, session[x], l).value.ok
        /\ tpc[x] = "completed_reloaded" =>
               SessionConsume(sessions, x, session[x]).value.ok

\* C26 witness: one session was reloaded as consumed with the link l1 while
\* the other, completed with the link l2, was reloaded as completed.
C26_Witness ==
    /\ tpc["s1"] = "consumed_reloaded"
    /\ IsConsumed(session["s1"])
    /\ link["s1"] = "l1"
    /\ tpc["s2"] = "completed_reloaded"
    /\ LinkId(session["s2"]) = "l2"


-----------------------------------------------------------------------------
(***************************************************************************)
(* Properties of record_batch_activity.                                    *)
(***************************************************************************)
\* The row the UPDATE of connection p locks next.
NextRow(p) == txn[p].activities[txn[p].pos + 1].id

\* Connection p waits for a row lock that connection q holds.
WaitsFor(p, q) ==
    /\ p # q
    /\ txn[p].state = "updating"
    /\ rowlocks[NextRow(p)] = q

\* C27: record_batch_activity sorts its batch by session id before the
\* update, whatever order the caller gave: every connection takes its row
\* locks in ascending order of the ids, so two concurrent batches lock the
\* rows they share in the same order, and no two connections ever wait for
\* each other.
C27_SortedBatchesNeverDeadlock ==
    /\ \A p \in Workers :
           \A i, j \in 1..Len(txn[p].activities) :
               i <= j => txn[p].activities[i].id <= txn[p].activities[j].id
    /\ \A p \in Workers :
           txn[p].state = "updating" =>
               \A x \in UserSessionIds : rowlocks[x] = p => x <= NextRow(p)
    /\ \A p, q \in Workers : ~(WaitsFor(p, q) /\ WaitsFor(q, p))

\* Two batches that share two rows, one of them given in descending order
\* of the ids, run at once and one waits for a lock of the other.
C27_Witness ==
    /\ WaitsFor("w1", "w2")
    /\ Len(txn["w1"].given) = 2
    /\ txn["w1"].given[1].id > txn["w1"].given[2].id
    /\ \A i \in 1..2 : rowlocks[txn["w1"].given[i].id] = "w2"

\* Connection p commits in this step.
Commits(p) == txn[p].state = "executed" /\ txn'[p].state = "committed"

\* C29: over every sequence of record_batch_activity calls, no step lowers
\* a session's stored last_active_at; a commit leaves the rows its UPDATE
\* did not write as they were and gives each written row, from one of the
\* activities supplied for it, the greater of the stored and the supplied
\* timestamp and the supplied address, or the stored one when none was
\* supplied; the stored address changes only to a supplied address.
C29_ActivityNeverMovesBack ==
    [][/\ \A x \in UserSessionIds :
              /\ user_sessions'[x].last_active_at
                     >= user_sessions[x].last_active_at
              /\ user_sessions'[x].last_active_ip
                     # user_sessions[x].last_active_ip
                 => /\ user_sessions'[x].last_active_ip # None
                    /\ \E p \in Workers :
                           /\ Commits(p)
                           /\ \E i \in 1..Len(txn[p].given) :
                                  /\ txn[p].given[i].id = x
                                  /\ txn[p].given[i].ip
                                         = user_sessions'[x].last_active_ip
       /\ \A p \in Workers :
              Commits(p) =>
                  \A x \in UserSessionIds :
                      IF txn[p].writes[x].written
                      THEN \E i \in 1..Len(txn[p].given) :
                               LET a == txn[p].given[i]
                                   old == user_sessions[x]
                                   new == user_sessions'[x]
                               IN  /\ a.id = x
                                   /\ new.last_active_at =
                                          (IF a.at > old.last_active_at
                                           THEN a.at ELSE old.last_active_at)
                                   /\ new.last_active_ip =
                                          (IF a.ip = None
                                           THEN old.last_active_ip ELSE a.ip)
                      ELSE user_sessions'[x] = user_sessions[x]
      ]_vars

\* An UPDATE has run for a session that has a later stored timestamp and a
\* stored address, with one activity for it, older and without address: the
\* version it wrote keeps both.
C29_Witness ==
    /\ txn["w1"].state = "executed"
    /\ txn["w1"].result = "Ok"
    /\ \E i \in 1..Len(txn["w1"].given) :
           LET a == txn["w1"].given[i]
               row == user_sessions[a.id]
               new == txn["w1"].writes[a.id]
           IN  /\ a.at < row.last_active_at
               /\ a.ip = None
               /\ row.last_active_ip # None
               /\ new.written
               /\ new.last_active_at = row.last_active_at
               /\ new.last_active_ip = row.last_active_ip

-----------------------------------------------------------------------------
(***************************************************************************)
(* Properties of the template Counter.                                     *)
(***************************************************************************)
\* The calls of method `name` without arguments that have run.
Ran(name) ==
    {i \in 1..Len(history) : history[i].name = name /\ history[i].args = <<>>}

\* The count after the i-th call that ran.
CountAfter(i) == IF i = Len(history) THEN count ELSE history[i + 1].before

\* C30: when n `next` calls of several threads have run, in any
\* interleaving, and no `reset`, each of 0..n-1 has been returned by
\* exactly one of them and the count is n; every `next` returns the count
\* before its own increment and leaves it one higher, `peek` returns the
\* count and leaves it, `reset` leaves it at 0.
C30_NextReturnsEachValueOnce ==
    /\ Ran("reset") = {} =>
           /\ \A v \in 0..(Cardinality(Ran("next")) - 1) :
                  Cardinality({i \in Ran("next") : history[i].returned = v}) = 1
           /\ count = Cardinality(Ran("next"))
    /\ \A i \in Ran("next") :
           /\ history[i].returned = history[i].before
           /\ CountAfter(i) = history[i].before + 1
    /\ \A i \in Ran("peek") :
           /\ history[i].returned = history[i].before
           /\ CountAfter(i) = history[i].before
    /\ \A i \in Ran("reset") : CountAfter(i) = 0

\* Three `next` calls were in flight on three threads at once and have all
\* run, with no reset.
C30_Witness ==
    /\ Cardinality(Ran("next")) = 3
    /\ Ran("reset") = {}
    /\ Len(history) = 3
    /\ \A t \in Threads : inflight[t] = NoCall
    /\ count = 3

-----------------------------------------------------------------------------
(***************************************************************************)
(* Properties joining the key parameters, the binders and the constraints. *)
(***************************************************************************)
\* The key of the binding as a candidate that states no algorithm of its
\* own: the constraints see it through kty and possible_algs.
KeyAsCandidate ==
    Constrainable(None, ParametersInfoPossibleAlgs(key), None, None,
                  ParametersInfoKty(key))

\* C28: for the key and the algorithm A of a binding, A is in
\* possible_algs(key) exactly when signing_key_for_alg and
\* verifying_key_for_alg both succeed for A, and exactly when the binder
\* that ran succeeded; so when the exact-algorithm constraint for A decides
\* Neutral on the key through its possible algorithms, the binding to A
\* has succeeded.
C28_PossibleAlgsAgreeWithBinding ==
    bop \in {"signing_key_for_alg", "verifying_key_for_alg"} =>
        LET possible == Contains(ParametersInfoPossibleAlgs(key), alg)
        IN  /\ possible <=> (SigningKeyForAlg(key, alg).ok
                             /\ VerifyingKeyForAlg(key, alg).ok)
            /\ possible <=> bound.ok
            /\ SigningKeyForAlg(key, alg).ok <=> VerifyingKeyForAlg(key, alg).ok
            /\ Decide(AlgConstraint(alg), KeyAsCandidate) = "Neutral"
                   => bound.ok /\ HandleAlg(bound.handle) = alg
            /\ Decide(AlgConstraint(alg), KeyAsCandidate) = "Negative"
                   => bound = WrongAlgorithmError

\* An RSA key that the constraint for PS384 keeps as Neutral has been bound
\* to PS384 for signing.
C28_Witness ==
    /\ bop = "signing_key_for_alg"
    /\ key.variant = "Rsa"
    /\ alg = "PS384"
    /\ Decide(AlgConstraint(alg), KeyAsCandidate) = "Neutral"
    /\ bound.ok
=============================================================================
